---- MODULE Spec2Model ----
(***************************************************************************)
(* Model of the terminal session engine of tui-goggles                     *)
(* (package terminal): New, Resize, the PTY reader loop, the query          *)
(* interceptor handleTerminalQueries, and the caller operations            *)
(* Screenshot, SendKeys, IsRunning, Wait and Close with the session lock,  *)
(* the polling waits WaitForStable and WaitForText, and of run and         *)
(* parseKey of the command-line tool.  Time is counted in ticks of 25 ms.  *)
(*                                                                         *)
(* A byte is modelled as a short string: "ESC" is 0x1B, "BEL" is 0x07, the *)
(* other control bytes carry their ASCII names ("CR" is 0x0D) and every    *)
(* other byte is the one-character string of its ASCII character.          *)
(* A buffer is a sequence of bytes; the code's 0-based index i addresses   *)
(* element i+1 of the sequence.                                            *)
(***************************************************************************)
EXTENDS Integers, Sequences, FiniteSets, TLC

VARIABLES
  sess,      \* "none" before New, "open" after a successful New, "failed" after a rejected one
  optRows,   \* opts.Rows as passed to New by the caller
  optCols,   \* opts.Cols as passed to New by the caller
  newErr,    \* error returned by New: "none", "dims" (validation) or "start" (pty.StartWithSize)
  osStart,   \* whether New called pty.StartWithSize: "notcalled", "ok", "fail"
  rows,      \* t.rows
  cols,      \* t.cols
  ptySize,   \* the OS-level window size of the PTY, [rows, cols]
  vt,        \* t.vt: [rows, cols, data (bytes written to it), writer (attached to the PTY)]
  rsz,       \* the last Resize call: [cols, rows, err] with err "none", "dims" or "os"
  nResize,   \* number of Resize calls made so far
  pc,        \* position of readLoop: "idle" (not started), "read", "scan", "respond", "done"
  segs,      \* the pieces the child wrote that make up the chunk being processed
  data,      \* buf[:n], the chunk handleTerminalQueries is scanning
  i,         \* the scan index of handleTerminalQueries
  result,    \* the result slice of handleTerminalQueries
  pending,   \* a size response between reading (rows, cols) under the lock and writing
  ptyIn,     \* the writes the session made to the PTY (the child's input side), in order
  nReads,    \* number of chunks read so far
  err,       \* t.err
  mu,        \* t.mu: "free", or its holder "reader" or "resize"
  vtPos,     \* bytes of the current vt.Write call already applied to the model
  vtOut,     \* the reports vt10x wrote to the PTY through its writer, in order
  ptyOpen,   \* t.ptyFile is open
  inFull,    \* the PTY's input queue has no room: a write blocks until the child reads
  child,     \* the child process: "none", "running", "exited" or "reaped"
  snap,      \* the value returned by the last Screenshot, as the model state it renders
  closePc,   \* position of each Close call: "idle", "kill", "file" or "nil" (returned nil)
  waitPc,    \* position of the Wait call: "idle", "done" (past <-t.done) or "status" (returned)
  running,   \* the value returned by the last IsRunning: "none", "true" or "false"
  keysRet,   \* the value returned by the last SendKeys: "none", "nil" or "closed"
  nKeys,     \* number of SendKeys calls made so far
  rz,        \* the Resize call in progress: [pc, cols, rows], pc "idle", "locked" or "sized"
  now,       \* time.Now(), in ticks of 25 ms
  wl,        \* the WaitForStable or WaitForText call in progress, see NoWl
  cfg,       \* the config of run, see NoCfg
  cmdStatus, \* the exit status the target command ends with when it exits by itself
  run,       \* the locals and the position of run, see NoRun
  timer      \* the timeout goroutine of run: "none", "armed", "fired" or "stopped"

vars == <<sess, optRows, optCols, newErr, osStart, rows, cols, ptySize, vt,
          rsz, nResize, pc, segs, data, i, result, pending, ptyIn, nReads, err,
          mu, vtPos, vtOut, ptyOpen, inFull, child,
          snap, closePc, waitPc, running, keysRet, nKeys, rz,
          now, wl, cfg, cmdStatus, run, timer>>

sessVars   == <<sess, optRows, optCols, newErr, osStart>>
sizeVars   == <<rows, cols, ptySize, rsz, nResize>>
readerVars == <<pc, segs, data, i, result, pending, ptyIn, nReads, err>>
ptyVars    == <<ptyOpen, inFull, child>>
callVars   == <<snap, closePc, waitPc, running, keysRet, nKeys, rz>>
lifeVars   == <<mu, vtPos, vtOut, ptyOpen, inFull, child,
                snap, closePc, waitPc, running, keysRet, nKeys, rz>>
toolVars   == <<now, wl, cfg, cmdStatus, run, timer>>

----------------------------------------------------------------------------
(* Bounds *)

MaxSegs    == 3   \* pieces per chunk in the interceptor specification
MaxReads   == 1   \* chunks read by the reader loop in the session specification
MaxResizes == 1   \* Resize calls in the session specification
MaxKeys    == 1   \* SendKeys calls
MaxWait    == 5   \* longest timeout of a wait call, in ticks of 25 ms

----------------------------------------------------------------------------
(* Bytes and byte strings *)

ESC == "ESC"
BEL == "BEL"

Digit == <<"0", "1", "2", "3", "4", "5", "6", "7", "8", "9">>

\* fmt.Sprintf("%d", n) for n >= 0
RECURSIVE Itoa(_)
Itoa(n) == IF n < 10 THEN <<Digit[n + 1]>>
           ELSE Itoa(n \div 10) \o <<Digit[(n % 10) + 1]>>

\* data[k] for the code's 0-based k
At(d, k) == d[k + 1]

RECURSIVE Flatten(_)
Flatten(ss) == IF ss = <<>> THEN <<>> ELSE Head(ss) \o Flatten(Tail(ss))

----------------------------------------------------------------------------
(* Program constants *)

maxTerminalDimension == 65535

----------------------------------------------------------------------------
(* Responses written to the PTY *)

respondToDA1 == <<ESC, "[", "?", "6", "2", ";", "4", "c">>

respondToDA2 == <<ESC, "[", ">", "1", ";", "0", ";", "0", "c">>

\* Variant: the cell height and width exchanged
respondToWindowSizePixels_Swapped(r, c) ==
  <<ESC, "[", "4", ";">> \o Itoa(r * 8) \o <<";">> \o Itoa(c * 16) \o <<"t">>

respondToWindowSizePixels(r, c) ==
  <<ESC, "[", "4", ";">> \o Itoa(r * 16) \o <<";">> \o Itoa(c * 8) \o <<"t">>

respondToTextAreaSize(r, c) ==
  <<ESC, "[", "8", ";">> \o Itoa(r) \o <<";">> \o Itoa(c) \o <<"t">>

respondToScreenSize(r, c) ==
  <<ESC, "[", "9", ";">> \o Itoa(r) \o <<";">> \o Itoa(c) \o <<"t">>

respondToBackgroundColorQuery ==
  <<ESC, "]", "1", "1", ";", "r", "g", "b", ":", "0", "0", "0", "0", "/",
    "0", "0", "0", "0", "/", "0", "0", "0", "0", ESC, "\\">>

respondToForegroundColorQuery ==
  <<ESC, "]", "1", "0", ";", "r", "g", "b", ":", "f", "f", "f", "f", "/",
    "f", "f", "f", "f", "/", "f", "f", "f", "f", ESC, "\\">>

----------------------------------------------------------------------------
(* The query interceptor.  Each tryHandle operator returns the number of   *)
(* bytes to skip and the respondTo function it called ("none" if none).   *)

NoMatch == [skip |-> 0, query |-> "none"]

Match(n, q) == [skip |-> n, query |-> q]

\* Variant: returns the position of the terminator instead of the one after it
RECURSIVE findOSCEnd_KeepsTerminator(_, _)
findOSCEnd_KeepsTerminator(d, offset) ==
  IF offset >= Len(d) THEN -1
  ELSE IF At(d, offset) = BEL THEN offset
  ELSE IF At(d, offset) = ESC /\ offset + 1 < Len(d) /\ At(d, offset + 1) = "\\"
       THEN offset
  ELSE findOSCEnd_KeepsTerminator(d, offset + 1)

\* Variant: a sequence without terminator ends with the buffer
RECURSIVE findOSCEnd_ToEnd(_, _)
findOSCEnd_ToEnd(d, offset) ==
  IF offset >= Len(d) THEN Len(d)
  ELSE IF At(d, offset) = BEL THEN offset + 1
  ELSE IF At(d, offset) = ESC /\ offset + 1 < Len(d) /\ At(d, offset + 1) = "\\"
       THEN offset + 2
  ELSE findOSCEnd_ToEnd(d, offset + 1)

\* Returns the position after the terminator, or -1
RECURSIVE findOSCEnd(_, _)
findOSCEnd(d, offset) ==
  IF offset >= Len(d) THEN -1
  ELSE IF At(d, offset) = BEL THEN offset + 1
  ELSE IF At(d, offset) = ESC /\ offset + 1 < Len(d) /\ At(d, offset + 1) = "\\"
       THEN offset + 2
  ELSE findOSCEnd(d, offset + 1)

tryHandleXTWINOPS(d, k) ==
  IF k + 4 >= Len(d) THEN NoMatch
  ELSE IF At(d, k + 2) # "1" THEN NoMatch
  ELSE IF At(d, k + 3) = "4" /\ At(d, k + 4) = "t" THEN Match(5, "WindowSizePixels")
  ELSE IF At(d, k + 3) = "8" /\ At(d, k + 4) = "t" THEN Match(5, "TextAreaSize")
  ELSE IF At(d, k + 3) = "9" /\ At(d, k + 4) = "t" THEN Match(5, "ScreenSize")
  ELSE NoMatch

\* Variant: ESC [ > 0 c skips four bytes instead of five
tryHandleCSIQuery_ShortDA2(d, k) ==
  IF k + 2 >= Len(d) \/ At(d, k + 1) # "[" THEN NoMatch
  ELSE IF At(d, k + 2) = "c" THEN Match(3, "DA1")
  ELSE IF k + 3 < Len(d) /\ At(d, k + 2) = "0" /\ At(d, k + 3) = "c" THEN Match(4, "DA1")
  ELSE IF At(d, k + 2) = ">" /\ k + 3 < Len(d) /\ At(d, k + 3) = "c" THEN Match(4, "DA2")
  ELSE IF At(d, k + 2) = ">" /\ k + 4 < Len(d) /\ At(d, k + 3) = "0" /\ At(d, k + 4) = "c"
       THEN Match(4, "DA2")
  ELSE tryHandleXTWINOPS(d, k)

\* Variant: the cursor position report ESC [ 6 n is intercepted as well
tryHandleCSIQuery_DSR(d, k) ==
  IF k + 2 >= Len(d) \/ At(d, k + 1) # "[" THEN NoMatch
  ELSE IF k + 3 < Len(d) /\ At(d, k + 2) = "6" /\ At(d, k + 3) = "n" THEN Match(4, "DA1")
  ELSE IF At(d, k + 2) = "c" THEN Match(3, "DA1")
  ELSE IF k + 3 < Len(d) /\ At(d, k + 2) = "0" /\ At(d, k + 3) = "c" THEN Match(4, "DA1")
  ELSE IF At(d, k + 2) = ">" /\ k + 3 < Len(d) /\ At(d, k + 3) = "c" THEN Match(4, "DA2")
  ELSE IF At(d, k + 2) = ">" /\ k + 4 < Len(d) /\ At(d, k + 3) = "0" /\ At(d, k + 4) = "c"
       THEN Match(5, "DA2")
  ELSE tryHandleXTWINOPS(d, k)

tryHandleCSIQuery(d, k) ==
  IF k + 2 >= Len(d) \/ At(d, k + 1) # "[" THEN NoMatch
  ELSE IF At(d, k + 2) = "c" THEN Match(3, "DA1")
  ELSE IF k + 3 < Len(d) /\ At(d, k + 2) = "0" /\ At(d, k + 3) = "c" THEN Match(4, "DA1")
  ELSE IF At(d, k + 2) = ">" /\ k + 3 < Len(d) /\ At(d, k + 3) = "c" THEN Match(4, "DA2")
  ELSE IF At(d, k + 2) = ">" /\ k + 4 < Len(d) /\ At(d, k + 3) = "0" /\ At(d, k + 4) = "c"
       THEN Match(5, "DA2")
  ELSE tryHandleXTWINOPS(d, k)

tryHandleOSCQuery(d, k) ==
  IF k + 4 >= Len(d) \/ At(d, k + 1) # "]" THEN NoMatch
  ELSE IF At(d, k + 2) = "1" /\ At(d, k + 3) = "1" /\ At(d, k + 4) = ";"
          /\ findOSCEnd(d, k + 5) > k
       THEN Match(findOSCEnd(d, k + 5) - k, "BackgroundColorQuery")
  ELSE IF At(d, k + 2) = "1" /\ At(d, k + 3) = "0" /\ At(d, k + 4) = ";"
          /\ findOSCEnd(d, k + 5) > k
       THEN Match(findOSCEnd(d, k + 5) - k, "ForegroundColorQuery")
  ELSE NoMatch

tryHandleQuery(d, k) ==
  IF tryHandleCSIQuery(d, k).skip > 0 THEN tryHandleCSIQuery(d, k)
  ELSE IF tryHandleOSCQuery(d, k).skip > 0 THEN tryHandleOSCQuery(d, k)
  ELSE NoMatch

\* Variant: the byte at k is not compared with ESC
QueryAt_AnyByte(d, k) ==
  IF k + 1 < Len(d) THEN tryHandleQuery(d, k) ELSE NoMatch

\* The condition of handleTerminalQueries under which position k is skipped
QueryAt(d, k) ==
  IF At(d, k) = ESC /\ k + 1 < Len(d) THEN tryHandleQuery(d, k) ELSE NoMatch

SizeQueries == {"WindowSizePixels", "TextAreaSize", "ScreenSize"}

\* The bytes the respondTo function named q writes, given the (rows, cols) it read
Response(q, r, c) ==
  CASE q = "DA1" -> respondToDA1
    [] q = "DA2" -> respondToDA2
    [] q = "WindowSizePixels" -> respondToWindowSizePixels(r, c)
    [] q = "TextAreaSize" -> respondToTextAreaSize(r, c)
    [] q = "ScreenSize" -> respondToScreenSize(r, c)
    [] q = "BackgroundColorQuery" -> respondToBackgroundColorQuery
    [] q = "ForegroundColorQuery" -> respondToForegroundColorQuery

----------------------------------------------------------------------------
(* What the child writes: complete queries, plain bytes, truncated pieces *)

qDA1     == <<ESC, "[", "c">>
qDA1Zero == <<ESC, "[", "0", "c">>
qDA2     == <<ESC, "[", ">", "c">>
qDA2Zero == <<ESC, "[", ">", "0", "c">>
q14t     == <<ESC, "[", "1", "4", "t">>
q18t     == <<ESC, "[", "1", "8", "t">>
q19t     == <<ESC, "[", "1", "9", "t">>
qFgBEL   == <<ESC, "]", "1", "0", ";", "?", BEL>>
qFgST    == <<ESC, "]", "1", "0", ";", "?", ESC, "\\">>
qBgBEL   == <<ESC, "]", "1", "1", ";", "?", BEL>>
qBgST    == <<ESC, "]", "1", "1", ";", "?", ESC, "\\">>
qDSR5    == <<ESC, "[", "5", "n">>
qDSR6    == <<ESC, "[", "6", "n">>

DAQueries   == {qDA1, qDA1Zero, qDA2, qDA2Zero}
SizeQueryTokens == {q14t, q18t, q19t}
OSCQueries  == {qFgBEL, qFgST, qBgBEL, qBgST}
DSRQueries  == {qDSR5, qDSR6}
QueryTokens == DAQueries \cup SizeQueryTokens \cup OSCQueries

\* Single bytes other than ESC
PlainBytes == {"A", "B", "[", "c", "\\", BEL}
PlainTokens == {<<b>> : b \in PlainBytes}

\* Query prefixes cut short (a lone ESC, ESC[, ESC[0, ESC[>, ESC[1, ESC[14, ESC]1, ...)
TruncatedTokens ==
  { <<ESC>>, <<ESC, "[">>, <<ESC, "[", "0">>, <<ESC, "[", ">">>, <<ESC, "[", "1">>,
    <<ESC, "[", "1", "4">>, <<ESC, "]", "1">>,
    <<ESC, "]", "1", "0", ";">>, <<ESC, "]", "1", "1", ";", "?">> }

\* Pieces of the chunks of the interceptor specification (of the size queries,
\* ESC[18t and ESC[19t are left to the session specification)
FilterTokens ==
  (QueryTokens \ {q18t, q19t}) \cup DSRQueries \cup PlainTokens \cup TruncatedTokens

\* Chunks the child writes in the session specification
SessionChunks ==
  { <<q14t>>, <<q18t>>,
    <<<<"A">>, q19t, <<"B">>>>,
    <<<<"A">>, q14t, q18t, <<"B">>>>,
    <<qBgBEL, qDSR6, q19t>> }

\* Values the caller passes as rows or cols
DimValues == {-1, 0, 24, 65535, 65536}

----------------------------------------------------------------------------
(* The virtual screen model (vt10x), as far as the session uses it *)

NoVt == [rows |-> 0, cols |-> 0, data |-> <<>>, writer |-> FALSE]

\* Variant: the arguments of vt10x.WithSize exchanged
vt10xNew_Swapped(c, r, w) == [rows |-> c, cols |-> r, data |-> <<>>, writer |-> w]

\* vt10x.New(vt10x.WithSize(c, r)), with or without vt10x.WithWriter(ptmx)
vt10xNew(c, r, w) == [rows |-> r, cols |-> c, data |-> <<>>, writer |-> w]

\* uint16(x)
Uint16(x) == x % 65536

NoPending == [query |-> "none", rows |-> 0, cols |-> 0, skip |-> 0]

NoResize == [cols |-> 0, rows |-> 0, err |-> "notcalled"]

\* The reports vt10x answers by itself through its writer
DSRKind(q) == IF q = qDSR5 THEN "status" ELSE "cursor"

\* The reports a vt.Write of d answers, from index k on
RECURSIVE DSRReports(_, _)
DSRReports(d, k) ==
  IF k + 4 > Len(d) THEN <<>>
  ELSE IF SubSeq(d, k + 1, k + 4) \in DSRQueries
       THEN <<DSRKind(SubSeq(d, k + 1, k + 4))>> \o DSRReports(d, k + 4)
       ELSE DSRReports(d, k + 1)

\* The callers of Close: the deferred call of run and its timeout goroutine
Closers == {1, 2}

NoSnap == [taken |-> FALSE, rows |-> 0, cols |-> 0, data |-> <<>>]

NoRz == [pc |-> "idle", cols |-> 0, rows |-> 0]

\* The rendered text of a screen model, as far as the session tells texts apart:
\* a grid without rows renders as the empty string
EmptyText == [rows |-> 0, cols |-> 0, data |-> <<>>]

\* t.vt.String()
Render(v) == IF v.rows = 0 THEN EmptyText
             ELSE [rows |-> v.rows, cols |-> v.cols, data |-> v.data]

\* No wait call in progress. pc is "idle", "check" (at the loop condition), "sleep"
\* or "returned"; kind is "stable" or "text"; since = -1 is the zero time.Time;
\* polls lists the snapshots polled so far with their times
NoWl == [pc |-> "idle", kind |-> "none", timeout |-> 0, deadline |-> 0, dur |-> 0,
         target |-> <<>>,
         last |-> EmptyText, since |-> -1, ret |-> "none", polls |-> <<>>]

\* The flags of the tool that matter to its exit code
NoCfg == [rows |-> 24, cols |-> 80, waitFor |-> <<>>, waitStable |-> FALSE,
          keys |-> <<>>, asserts |-> <<>>]

\* run not entered. pc is the position of run, k the number of key names handled,
\* key the key parsed last, sent the number of SendKeys calls made before the current
\* one, final the screen captured last, exit the exit code returned
NoRun == [pc |-> "idle", k |-> 0, key |-> <<>>, sent |-> 0, final |-> EmptyText,
          captured |-> FALSE, exit |-> -1]

----------------------------------------------------------------------------
(* Session creation and resize *)

\* Variant: the upper bound itself is rejected
NewRejects_OffByOne(r, c) ==
  \/ r < 0 \/ r >= maxTerminalDimension
  \/ c < 0 \/ c >= maxTerminalDimension

\* The dimension validation of New, applied after the zero defaults
NewRejects(r, c) ==
  \/ r < 0 \/ r > maxTerminalDimension
  \/ c < 0 \/ c > maxTerminalDimension

\* Variant: Resize validates the rows only
ResizeRejects_RowsOnly(r, c) ==
  \/ r < 0 \/ r > maxTerminalDimension

\* The dimension validation of Resize
ResizeRejects(r, c) ==
  \/ r < 0 \/ r > maxTerminalDimension
  \/ c < 0 \/ c > maxTerminalDimension

Init ==
  /\ sess = "none" /\ optRows = 0 /\ optCols = 0 /\ newErr = "none" /\ osStart = "notcalled"
  /\ rows = 0 /\ cols = 0 /\ ptySize = [rows |-> 0, cols |-> 0] /\ vt = NoVt
  /\ rsz = NoResize /\ nResize = 0
  /\ pc = "idle" /\ segs = <<>> /\ data = <<>> /\ i = 0 /\ result = <<>>
  /\ pending = NoPending /\ ptyIn = <<>> /\ nReads = 0 /\ err = "none"
  /\ mu = "free" /\ vtPos = 0 /\ vtOut = <<>>
  /\ ptyOpen = FALSE /\ inFull = FALSE /\ child = "none"
  /\ snap = NoSnap /\ closePc = [c \in Closers |-> "idle"] /\ waitPc = "idle"
  /\ running = "none" /\ keysRet = "none" /\ nKeys = 0 /\ rz = NoRz
  /\ now = 0 /\ wl = NoWl /\ cfg = NoCfg /\ cmdStatus = 0 /\ run = NoRun /\ timer = "none"

\* Variant: New returns the session without starting the reader loop
New_NoReader(r, c, startOk) ==
  LET R == IF r = 0 THEN 24 ELSE r
      C == IF c = 0 THEN 80 ELSE c
  IN /\ sess = "none"
     /\ optRows' = r /\ optCols' = c
     /\ IF NewRejects(R, C)
        THEN /\ sess' = "failed" /\ newErr' = "dims" /\ osStart' = "notcalled"
             /\ UNCHANGED <<rows, cols, ptySize, vt, ptyOpen, child>>
        ELSE IF ~startOk
        THEN /\ sess' = "failed" /\ newErr' = "start" /\ osStart' = "fail"
             /\ UNCHANGED <<rows, cols, ptySize, vt, ptyOpen, child>>
        ELSE /\ sess' = "open" /\ newErr' = "none" /\ osStart' = "ok"
             /\ ptySize' = [rows |-> Uint16(R), cols |-> Uint16(C)]
             /\ ptyOpen' = TRUE /\ child' = "running"
             /\ vt' = vt10xNew(C, R, TRUE)
             /\ rows' = R /\ cols' = C
     /\ UNCHANGED <<rsz, nResize, pc, segs, data, i, result, pending, ptyIn, nReads, err>>
     /\ UNCHANGED <<mu, vtPos, vtOut, inFull>> /\ UNCHANGED callVars
     /\ UNCHANGED toolVars

\* New(command, args, opts) with opts.Rows = r, opts.Cols = c; startOk is the
\* outcome of pty.StartWithSize
New(r, c, startOk) ==
  LET R == IF r = 0 THEN 24 ELSE r
      C == IF c = 0 THEN 80 ELSE c
  IN /\ sess = "none"
     /\ optRows' = r /\ optCols' = c
     /\ IF NewRejects(R, C)
        THEN /\ sess' = "failed" /\ newErr' = "dims" /\ osStart' = "notcalled"
             /\ UNCHANGED <<rows, cols, ptySize, vt, pc, ptyOpen, child>>
        ELSE IF ~startOk
        THEN /\ sess' = "failed" /\ newErr' = "start" /\ osStart' = "fail"
             /\ UNCHANGED <<rows, cols, ptySize, vt, pc, ptyOpen, child>>
        ELSE /\ sess' = "open" /\ newErr' = "none" /\ osStart' = "ok"
             /\ ptySize' = [rows |-> Uint16(R), cols |-> Uint16(C)]
             /\ ptyOpen' = TRUE /\ child' = "running"
             /\ vt' = vt10xNew(C, R, TRUE)
             /\ rows' = R /\ cols' = C
             /\ pc' = "read"
     /\ UNCHANGED <<rsz, nResize, segs, data, i, result, pending, ptyIn, nReads, err>>
     /\ UNCHANGED <<mu, vtPos, vtOut, inFull>> /\ UNCHANGED callVars
     /\ UNCHANGED toolVars

\* Variant: the model and the recorded size are replaced before pty.Setsize
Resize_ModelFirst(c, r, setsizeOk) ==
  /\ sess = "open"
  /\ nResize < MaxResizes
  /\ mu = "free" /\ rz.pc = "idle"
  /\ setsizeOk => ptyOpen
  /\ nResize' = nResize + 1
  /\ IF ResizeRejects(r, c)
     THEN /\ rsz' = [cols |-> c, rows |-> r, err |-> "dims"]
          /\ UNCHANGED <<rows, cols, ptySize, vt>>
     ELSE /\ rows' = r /\ cols' = c
          /\ vt' = vt10xNew(c, r, FALSE)
          /\ IF ~setsizeOk
             THEN /\ rsz' = [cols |-> c, rows |-> r, err |-> "os"]
                  /\ UNCHANGED ptySize
             ELSE /\ rsz' = [cols |-> c, rows |-> r, err |-> "none"]
                  /\ ptySize' = [rows |-> Uint16(r), cols |-> Uint16(c)]
  /\ UNCHANGED sessVars
  /\ UNCHANGED readerVars
  /\ UNCHANGED lifeVars
  /\ UNCHANGED toolVars

\* t.Resize(c, r) with its critical section as one step; setsizeOk is the
\* outcome of pty.Setsize, which fails on a closed PTY
Resize(c, r, setsizeOk) ==
  /\ sess = "open"
  /\ nResize < MaxResizes
  /\ mu = "free" /\ rz.pc = "idle"
  /\ setsizeOk => ptyOpen
  /\ nResize' = nResize + 1
  /\ IF ResizeRejects(r, c)
     THEN /\ rsz' = [cols |-> c, rows |-> r, err |-> "dims"]
          /\ UNCHANGED <<rows, cols, ptySize, vt>>
     ELSE IF ~setsizeOk
     THEN /\ rsz' = [cols |-> c, rows |-> r, err |-> "os"]
          /\ UNCHANGED <<rows, cols, ptySize, vt>>
     ELSE /\ rsz' = [cols |-> c, rows |-> r, err |-> "none"]
          /\ ptySize' = [rows |-> Uint16(r), cols |-> Uint16(c)]
          /\ rows' = r /\ cols' = c
          /\ vt' = vt10xNew(c, r, FALSE)
  /\ UNCHANGED sessVars
  /\ UNCHANGED readerVars
  /\ UNCHANGED lifeVars
  /\ UNCHANGED toolVars

----------------------------------------------------------------------------
(* The reader loop *)

\* reader.Read returns n > 0 bytes: the chunk made of the pieces ss
readLoopRead(ss) ==
  /\ pc = "read"
  /\ ptyOpen
  /\ nReads' = nReads + 1
  /\ segs' = ss /\ data' = Flatten(ss)
  /\ i' = 0 /\ result' = <<>>
  /\ pc' = "scan"
  /\ UNCHANGED <<pending, ptyIn, err, vt>>
  /\ UNCHANGED sessVars /\ UNCHANGED sizeVars /\ UNCHANGED lifeVars
  /\ UNCHANGED toolVars

\* Variant: end-of-stream is recorded as an error too
readLoopEOF_RecordsEOF ==
  /\ pc = "read"
  /\ ptyOpen
  /\ err' = "eof"
  /\ pc' = "done"
  /\ UNCHANGED <<segs, data, i, result, pending, ptyIn, nReads, vt>>
  /\ UNCHANGED sessVars /\ UNCHANGED sizeVars /\ UNCHANGED lifeVars
  /\ UNCHANGED toolVars

\* reader.Read returns io.EOF
readLoopEOF ==
  /\ pc = "read"
  /\ ptyOpen
  /\ pc' = "done"
  /\ UNCHANGED <<segs, data, i, result, pending, ptyIn, nReads, err, vt>>
  /\ UNCHANGED sessVars /\ UNCHANGED sizeVars /\ UNCHANGED lifeVars
  /\ UNCHANGED toolVars

\* Variant: the error path leaves without closing t.done
readLoopError_NoSignal ==
  /\ pc = "read"
  /\ mu = "free"
  /\ err' = "io"
  /\ pc' = "failed"
  /\ UNCHANGED <<segs, data, i, result, pending, ptyIn, nReads, vt>>
  /\ UNCHANGED sessVars /\ UNCHANGED sizeVars /\ UNCHANGED lifeVars
  /\ UNCHANGED toolVars

\* reader.Read returns another error: an OS error, or the file was closed
readLoopError ==
  /\ pc = "read"
  /\ mu = "free"
  /\ err' = "io"
  /\ pc' = "done"
  /\ UNCHANGED <<segs, data, i, result, pending, ptyIn, nReads, vt>>
  /\ UNCHANGED sessVars /\ UNCHANGED sizeVars /\ UNCHANGED lifeVars
  /\ UNCHANGED toolVars

\* Variant: an ESC that starts no query is dropped
scanPass_DropsEsc ==
  /\ pc = "scan" /\ i < Len(data)
  /\ QueryAt(data, i).skip = 0
  /\ result' = IF At(data, i) = ESC THEN result ELSE Append(result, At(data, i))
  /\ i' = i + 1
  /\ UNCHANGED <<pc, segs, data, pending, ptyIn, nReads, err, vt>>
  /\ UNCHANGED sessVars /\ UNCHANGED sizeVars /\ UNCHANGED lifeVars
  /\ UNCHANGED toolVars

\* One iteration of the loop of handleTerminalQueries: no query at i
scanPass ==
  /\ pc = "scan" /\ i < Len(data)
  /\ QueryAt(data, i).skip = 0
  /\ result' = Append(result, At(data, i))
  /\ i' = i + 1
  /\ UNCHANGED <<pc, segs, data, pending, ptyIn, nReads, err, vt>>
  /\ UNCHANGED sessVars /\ UNCHANGED sizeVars /\ UNCHANGED lifeVars
  /\ UNCHANGED toolVars

\* Variant: the response is put in front of the earlier ones
scanFixedQuery_Prepend ==
  /\ pc = "scan" /\ i < Len(data)
  /\ QueryAt(data, i).skip > 0
  /\ QueryAt(data, i).query \notin SizeQueries
  /\ ptyIn' = <<Response(QueryAt(data, i).query, 0, 0)>> \o ptyIn
  /\ i' = i + QueryAt(data, i).skip
  /\ UNCHANGED <<pc, segs, data, result, pending, nReads, err, vt>>
  /\ UNCHANGED sessVars /\ UNCHANGED sizeVars /\ UNCHANGED lifeVars
  /\ UNCHANGED toolVars

\* One iteration: a query with a fixed response at i. The write waits for room
\* in the PTY's input queue and fails, ignored, on a closed PTY
scanFixedQuery ==
  /\ pc = "scan" /\ i < Len(data)
  /\ QueryAt(data, i).skip > 0
  /\ QueryAt(data, i).query \notin SizeQueries
  /\ ptyOpen => ~inFull
  /\ ptyIn' = IF ptyOpen THEN Append(ptyIn, Response(QueryAt(data, i).query, 0, 0))
                         ELSE ptyIn
  /\ i' = i + QueryAt(data, i).skip
  /\ UNCHANGED <<pc, segs, data, result, pending, nReads, err, vt>>
  /\ UNCHANGED sessVars /\ UNCHANGED sizeVars /\ UNCHANGED lifeVars
  /\ UNCHANGED toolVars

\* Variant: t.rows and t.cols are read without taking the lock
scanSizeQuery_NoLock ==
  /\ pc = "scan" /\ i < Len(data)
  /\ QueryAt(data, i).skip > 0
  /\ QueryAt(data, i).query \in SizeQueries
  /\ pending' = [query |-> QueryAt(data, i).query, rows |-> rows, cols |-> cols,
                 skip |-> QueryAt(data, i).skip]
  /\ pc' = "respond"
  /\ UNCHANGED <<segs, data, i, result, ptyIn, nReads, err, vt>>
  /\ UNCHANGED sessVars /\ UNCHANGED sizeVars /\ UNCHANGED lifeVars
  /\ UNCHANGED toolVars

\* A size query at i: the respondTo function reads t.rows and t.cols under the lock
scanSizeQuery ==
  /\ pc = "scan" /\ i < Len(data)
  /\ QueryAt(data, i).skip > 0
  /\ QueryAt(data, i).query \in SizeQueries
  /\ mu = "free"
  /\ pending' = [query |-> QueryAt(data, i).query, rows |-> rows, cols |-> cols,
                 skip |-> QueryAt(data, i).skip]
  /\ pc' = "respond"
  /\ UNCHANGED <<segs, data, i, result, ptyIn, nReads, err, vt>>
  /\ UNCHANGED sessVars /\ UNCHANGED sizeVars /\ UNCHANGED lifeVars
  /\ UNCHANGED toolVars

\* ... and, the lock released, writes the response; the scan skips the query
respondWrite ==
  /\ pc = "respond"
  /\ ptyOpen => ~inFull
  /\ ptyIn' = IF ptyOpen
              THEN Append(ptyIn, Response(pending.query, pending.rows, pending.cols))
              ELSE ptyIn
  /\ i' = i + pending.skip
  /\ pending' = NoPending
  /\ pc' = "scan"
  /\ UNCHANGED <<segs, data, result, nReads, err, vt>>
  /\ UNCHANGED sessVars /\ UNCHANGED sizeVars /\ UNCHANGED lifeVars
  /\ UNCHANGED toolVars

\* handleTerminalQueries returns result; readLoop writes it to the model if not
\* empty, the critical section taken as one step. A model created with the PTY
\* as writer answers the DSR queries in it on the PTY
readLoopWrite ==
  LET reports == IF vt.writer THEN DSRReports(result, 0) ELSE <<>>
  IN /\ pc = "scan" /\ i >= Len(data)
     /\ mu = "free"
     /\ (reports # <<>> /\ ptyOpen) => ~inFull
     /\ vt' = IF Len(result) > 0 THEN [vt EXCEPT !.data = @ \o result] ELSE vt
     /\ vtOut' = IF ptyOpen THEN vtOut \o reports ELSE vtOut
     /\ pc' = "read"
     /\ UNCHANGED <<segs, data, i, result, pending, ptyIn, nReads, err>>
     /\ UNCHANGED <<mu, vtPos>> /\ UNCHANGED ptyVars /\ UNCHANGED callVars
     /\ UNCHANGED sessVars /\ UNCHANGED sizeVars
     /\ UNCHANGED toolVars

----------------------------------------------------------------------------
(* The reader loop's write to the model, at the grain of the session lock *)

\* handleTerminalQueries returned an empty result: nothing is written
readLoopSkip ==
  /\ pc = "scan" /\ i >= Len(data)
  /\ Len(result) = 0
  /\ pc' = "read"
  /\ UNCHANGED <<sess, optRows, optCols, newErr, osStart, rows, cols, ptySize, vt,
                 rsz, nResize, segs, data, i, result, pending, ptyIn, nReads, err,
                 mu, vtPos, vtOut, ptyOpen, inFull, child, snap, closePc, waitPc,
                 running, keysRet, nKeys, rz>>
  /\ UNCHANGED toolVars

\* t.mu.Lock() before t.vt.Write(data)
readLoopLock ==
  /\ pc = "scan" /\ i >= Len(data)
  /\ Len(result) > 0
  /\ mu = "free"
  /\ mu' = "reader" /\ vtPos' = 0
  /\ pc' = "write"
  /\ UNCHANGED <<sess, optRows, optCols, newErr, osStart, rows, cols, ptySize, vt,
                 rsz, nResize, segs, data, i, result, pending, ptyIn, nReads, err,
                 vtOut, ptyOpen, inFull, child, snap, closePc, waitPc, running,
                 keysRet, nKeys, rz>>
  /\ UNCHANGED toolVars

\* t.vt.Write(data) applies the next byte; a byte that completes a DSR query makes
\* a model created with a writer answer it before going on
vtWriteByte ==
  /\ pc = "write" /\ vtPos < Len(result)
  /\ vt' = [vt EXCEPT !.data = Append(@, result[vtPos + 1])]
  /\ vtPos' = vtPos + 1
  /\ pc' = IF /\ vt.writer
              /\ vtPos + 1 >= 4
              /\ SubSeq(result, vtPos - 2, vtPos + 1) \in DSRQueries
           THEN "answer" ELSE "write"
  /\ UNCHANGED <<sess, optRows, optCols, newErr, osStart, rows, cols, ptySize, rsz,
                 nResize, segs, data, i, result, pending, ptyIn, nReads, err, mu,
                 vtOut, ptyOpen, inFull, child, snap, closePc, waitPc, running,
                 keysRet, nKeys, rz>>
  /\ UNCHANGED toolVars

\* The model writes its report to the PTY, still inside t.vt.Write: the write
\* waits for room in the PTY's input queue and fails on a closed PTY
vtAnswer ==
  /\ pc = "answer"
  /\ ptyOpen => ~inFull
  /\ vtOut' = IF ptyOpen THEN Append(vtOut, DSRKind(SubSeq(result, vtPos - 3, vtPos)))
                         ELSE vtOut
  /\ pc' = "write"
  /\ UNCHANGED <<sess, optRows, optCols, newErr, osStart, rows, cols, ptySize, vt,
                 rsz, nResize, segs, data, i, result, pending, ptyIn, nReads, err,
                 mu, vtPos, ptyOpen, inFull, child, snap, closePc, waitPc, running,
                 keysRet, nKeys, rz>>
  /\ UNCHANGED toolVars

\* t.vt.Write has returned: t.mu.Unlock()
readLoopUnlock ==
  /\ pc = "write" /\ vtPos = Len(result)
  /\ mu' = "free"
  /\ pc' = "read"
  /\ UNCHANGED <<sess, optRows, optCols, newErr, osStart, rows, cols, ptySize, vt,
                 rsz, nResize, segs, data, i, result, pending, ptyIn, nReads, err,
                 vtPos, vtOut, ptyOpen, inFull, child, snap, closePc, waitPc, running,
                 keysRet, nKeys, rz>>
  /\ UNCHANGED toolVars

----------------------------------------------------------------------------
(* The caller operations *)

\* Variant: the screen is read without taking the lock
Screenshot_NoLock ==
  /\ sess = "open"
  /\ snap' = [taken |-> TRUE, rows |-> vt.rows, cols |-> vt.cols, data |-> vt.data]
  /\ UNCHANGED <<sess, optRows, optCols, newErr, osStart, rows, cols, ptySize, vt,
                 rsz, nResize, pc, segs, data, i, result, pending, ptyIn, nReads,
                 err, mu, vtPos, vtOut, ptyOpen, inFull, child, closePc, waitPc,
                 running, keysRet, nKeys, rz>>
  /\ UNCHANGED toolVars

\* t.Screenshot(): t.vt.String() under the lock
Screenshot ==
  /\ sess = "open"
  /\ mu = "free"
  /\ snap' = [taken |-> TRUE, rows |-> vt.rows, cols |-> vt.cols, data |-> vt.data]
  /\ UNCHANGED <<sess, optRows, optCols, newErr, osStart, rows, cols, ptySize, vt,
                 rsz, nResize, pc, segs, data, i, result, pending, ptyIn, nReads,
                 err, mu, vtPos, vtOut, ptyOpen, inFull, child, closePc, waitPc,
                 running, keysRet, nKeys, rz>>
  /\ UNCHANGED toolVars

\* The keys a caller sends: a letter and KeyUp
Keys == { <<"j">>, <<ESC, "[", "A">> }

\* Variant: the write succeeds on a closed PTY too
SendKeys_NoCheck(k, full) ==
  /\ sess = "open"
  /\ ptyOpen => ~inFull
  /\ nKeys' = nKeys + 1
  /\ ptyIn' = Append(ptyIn, k) /\ keysRet' = "nil" /\ inFull' = full
  /\ UNCHANGED <<sess, optRows, optCols, newErr, osStart, rows, cols, ptySize, vt,
                 rsz, nResize, pc, segs, data, i, result, pending, nReads, err,
                 mu, vtPos, vtOut, ptyOpen, child, snap, closePc, waitPc, running,
                 rz>>
  /\ UNCHANGED toolVars

\* t.SendKeys(k): t.ptyFile.WriteString(k), without the lock. full tells whether
\* the write leaves the PTY's input queue without room
SendKeys(k, full) ==
  /\ sess = "open"
  /\ ptyOpen => ~inFull
  /\ nKeys' = nKeys + 1
  /\ IF ptyOpen
     THEN /\ ptyIn' = Append(ptyIn, k) /\ keysRet' = "nil" /\ inFull' = full
     ELSE /\ keysRet' = "closed" /\ UNCHANGED <<ptyIn, inFull>>
  /\ UNCHANGED <<sess, optRows, optCols, newErr, osStart, rows, cols, ptySize, vt,
                 rsz, nResize, pc, segs, data, i, result, pending, nReads, err,
                 mu, vtPos, vtOut, ptyOpen, child, snap, closePc, waitPc, running,
                 rz>>
  /\ UNCHANGED toolVars

\* Variant: the answer follows the child process instead of t.done
IsRunning_ChildAlive ==
  /\ sess = "open"
  /\ running' = IF child = "running" THEN "true" ELSE "false"
  /\ UNCHANGED <<sess, optRows, optCols, newErr, osStart, rows, cols, ptySize, vt,
                 rsz, nResize, pc, segs, data, i, result, pending, ptyIn, nReads,
                 err, mu, vtPos, vtOut, ptyOpen, inFull, child, snap, closePc, waitPc,
                 keysRet, nKeys, rz>>
  /\ UNCHANGED toolVars

\* t.IsRunning(): the non-blocking receive on t.done
IsRunning ==
  /\ sess = "open"
  /\ running' = IF pc = "done" THEN "false" ELSE "true"
  /\ UNCHANGED <<sess, optRows, optCols, newErr, osStart, rows, cols, ptySize, vt,
                 rsz, nResize, pc, segs, data, i, result, pending, ptyIn, nReads,
                 err, mu, vtPos, vtOut, ptyOpen, inFull, child, snap, closePc, waitPc,
                 keysRet, nKeys, rz>>
  /\ UNCHANGED toolVars

\* t.Resize(c, r) rejected by its validation, before the lock is taken
ResizeReject(c, r) ==
  /\ sess = "open" /\ rz.pc = "idle"
  /\ ResizeRejects(r, c)
  /\ nResize' = nResize + 1
  /\ rsz' = [cols |-> c, rows |-> r, err |-> "dims"]
  /\ UNCHANGED <<sess, optRows, optCols, newErr, osStart, rows, cols, ptySize, vt,
                 pc, segs, data, i, result, pending, ptyIn, nReads, err, mu, vtPos,
                 vtOut, ptyOpen, inFull, child, snap, closePc, waitPc, running,
                 keysRet, nKeys, rz>>
  /\ UNCHANGED toolVars

\* t.Resize(c, r): t.mu.Lock()
ResizeLock(c, r) ==
  /\ sess = "open" /\ rz.pc = "idle"
  /\ ~ResizeRejects(r, c)
  /\ mu = "free"
  /\ mu' = "resize"
  /\ nResize' = nResize + 1
  /\ rz' = [pc |-> "locked", cols |-> c, rows |-> r]
  /\ UNCHANGED <<sess, optRows, optCols, newErr, osStart, rows, cols, ptySize, vt,
                 rsz, pc, segs, data, i, result, pending, ptyIn, nReads, err, vtPos,
                 vtOut, ptyOpen, inFull, child, snap, closePc, waitPc, running,
                 keysRet, nKeys>>
  /\ UNCHANGED toolVars

\* Variant: the lock is given up once pty.Setsize has succeeded
ResizeSetsize_Unlocks(setsizeOk) ==
  /\ rz.pc = "locked"
  /\ setsizeOk => ptyOpen
  /\ IF setsizeOk
     THEN /\ ptySize' = [rows |-> Uint16(rz.rows), cols |-> Uint16(rz.cols)]
          /\ rz' = [rz EXCEPT !.pc = "sized"]
          /\ mu' = "free"
          /\ UNCHANGED rsz
     ELSE /\ rsz' = [cols |-> rz.cols, rows |-> rz.rows, err |-> "os"]
          /\ rz' = NoRz
          /\ mu' = "free"
          /\ UNCHANGED ptySize
  /\ UNCHANGED <<sess, optRows, optCols, newErr, osStart, rows, cols, vt, nResize,
                 pc, segs, data, i, result, pending, ptyIn, nReads, err, vtPos,
                 vtOut, ptyOpen, inFull, child, snap, closePc, waitPc, running,
                 keysRet, nKeys>>
  /\ UNCHANGED toolVars

\* pty.Setsize under the lock; on an error Resize returns it, unlocking
ResizeSetsize(setsizeOk) ==
  /\ rz.pc = "locked"
  /\ setsizeOk => ptyOpen
  /\ IF setsizeOk
     THEN /\ ptySize' = [rows |-> Uint16(rz.rows), cols |-> Uint16(rz.cols)]
          /\ rz' = [rz EXCEPT !.pc = "sized"]
          /\ UNCHANGED <<rsz, mu>>
     ELSE /\ rsz' = [cols |-> rz.cols, rows |-> rz.rows, err |-> "os"]
          /\ rz' = NoRz
          /\ mu' = "free"
          /\ UNCHANGED ptySize
  /\ UNCHANGED <<sess, optRows, optCols, newErr, osStart, rows, cols, vt, nResize,
                 pc, segs, data, i, result, pending, ptyIn, nReads, err, vtPos,
                 vtOut, ptyOpen, inFull, child, snap, closePc, waitPc, running,
                 keysRet, nKeys>>
  /\ UNCHANGED toolVars

\* Variant: the lock is released before the screen model is replaced
ResizeApply_KeepsModel ==
  /\ rz.pc = "sized"
  /\ rows' = rz.rows /\ cols' = rz.cols
  /\ rsz' = [cols |-> rz.cols, rows |-> rz.rows, err |-> "none"]
  /\ rz' = NoRz
  /\ mu' = "free"
  /\ UNCHANGED <<sess, optRows, optCols, newErr, osStart, ptySize, vt, nResize,
                 pc, segs, data, i, result, pending, ptyIn, nReads, err, vtPos,
                 vtOut, ptyOpen, inFull, child, snap, closePc, waitPc, running,
                 keysRet, nKeys>>
  /\ UNCHANGED toolVars

\* t.rows, t.cols and t.vt replaced under the lock; Resize returns nil, unlocking
ResizeApply ==
  /\ rz.pc = "sized"
  /\ rows' = rz.rows /\ cols' = rz.cols
  /\ vt' = vt10xNew(rz.cols, rz.rows, FALSE)
  /\ rsz' = [cols |-> rz.cols, rows |-> rz.rows, err |-> "none"]
  /\ rz' = NoRz
  /\ mu' = "free"
  /\ UNCHANGED <<sess, optRows, optCols, newErr, osStart, ptySize, nResize, pc,
                 segs, data, i, result, pending, ptyIn, nReads, err, vtPos, vtOut,
                 ptyOpen, inFull, child, snap, closePc, waitPc, running, keysRet,
                 nKeys>>
  /\ UNCHANGED toolVars

\* t.Close() by caller c: t.cmd.Process.Kill(), its error ignored
closeKill(c) ==
  /\ sess = "open"
  /\ closePc[c] = "idle"
  /\ child' = IF child = "running" THEN "exited" ELSE child
  /\ closePc' = [closePc EXCEPT ![c] = "kill"]
  /\ UNCHANGED <<sess, optRows, optCols, newErr, osStart, rows, cols, ptySize, vt,
                 rsz, nResize, pc, segs, data, i, result, pending, ptyIn, nReads,
                 err, mu, vtPos, vtOut, ptyOpen, inFull, snap, waitPc, running,
                 keysRet, nKeys, rz>>
  /\ UNCHANGED toolVars

\* The assignments of Resize one by one: t.rows = rows under the lock ...
ResizeRows ==
  /\ rz.pc = "sized"
  /\ rows' = rz.rows
  /\ rz' = [rz EXCEPT !.pc = "rows"]
  /\ UNCHANGED <<sess, optRows, optCols, newErr, osStart, cols, ptySize, vt, rsz,
                 nResize, pc, segs, data, i, result, pending, ptyIn, nReads, err, mu,
                 vtPos, vtOut, ptyOpen, inFull, child, snap, closePc, waitPc, running,
                 keysRet, nKeys>>
  /\ UNCHANGED toolVars

\* ... then t.cols = cols and the new model; Resize returns nil, unlocking
ResizeRest ==
  /\ rz.pc = "rows"
  /\ cols' = rz.cols
  /\ vt' = vt10xNew(rz.cols, rz.rows, FALSE)
  /\ rsz' = [cols |-> rz.cols, rows |-> rz.rows, err |-> "none"]
  /\ rz' = NoRz
  /\ mu' = "free"
  /\ UNCHANGED <<sess, optRows, optCols, newErr, osStart, rows, ptySize, nResize, pc,
                 segs, data, i, result, pending, ptyIn, nReads, err, vtPos, vtOut,
                 ptyOpen, inFull, child, snap, closePc, waitPc, running, keysRet,
                 nKeys>>
  /\ UNCHANGED toolVars

\* Variant: Close leaves the PTY file open
closeFile_KeepsOpen(c) ==
  /\ closePc[c] = "kill"
  /\ closePc' = [closePc EXCEPT ![c] = "file"]
  /\ UNCHANGED <<sess, optRows, optCols, newErr, osStart, rows, cols, ptySize, vt,
                 rsz, nResize, pc, segs, data, i, result, pending, ptyIn, nReads,
                 err, mu, vtPos, vtOut, ptyOpen, inFull, child, snap, waitPc, running,
                 keysRet, nKeys, rz>>
  /\ UNCHANGED toolVars

\* t.ptyFile.Close(), its error ignored
closeFile(c) ==
  /\ closePc[c] = "kill"
  /\ ptyOpen' = FALSE
  /\ closePc' = [closePc EXCEPT ![c] = "file"]
  /\ UNCHANGED <<sess, optRows, optCols, newErr, osStart, rows, cols, ptySize, vt,
                 rsz, nResize, pc, segs, data, i, result, pending, ptyIn, nReads,
                 err, mu, vtPos, vtOut, inFull, child, snap, waitPc, running, keysRet,
                 nKeys, rz>>
  /\ UNCHANGED toolVars

\* Variant: Close returns without waiting for the reader loop
closeDone_NoWait(c) ==
  /\ closePc[c] = "file"
  /\ closePc' = [closePc EXCEPT ![c] = "nil"]
  /\ UNCHANGED <<sess, optRows, optCols, newErr, osStart, rows, cols, ptySize, vt,
                 rsz, nResize, pc, segs, data, i, result, pending, ptyIn, nReads,
                 err, mu, vtPos, vtOut, ptyOpen, inFull, child, snap, waitPc, running,
                 keysRet, nKeys, rz>>
  /\ UNCHANGED toolVars

\* <-t.done, then return nil
closeDone(c) ==
  /\ closePc[c] = "file"
  /\ pc = "done"
  /\ closePc' = [closePc EXCEPT ![c] = "nil"]
  /\ UNCHANGED <<sess, optRows, optCols, newErr, osStart, rows, cols, ptySize, vt,
                 rsz, nResize, pc, segs, data, i, result, pending, ptyIn, nReads,
                 err, mu, vtPos, vtOut, ptyOpen, inFull, child, snap, waitPc, running,
                 keysRet, nKeys, rz>>
  /\ UNCHANGED toolVars

\* Variant: Wait goes on to t.cmd.Wait() without waiting for the reader loop
waitDone_NoWait ==
  /\ sess = "open"
  /\ waitPc = "idle"
  /\ waitPc' = "done"
  /\ UNCHANGED <<sess, optRows, optCols, newErr, osStart, rows, cols, ptySize, vt,
                 rsz, nResize, pc, segs, data, i, result, pending, ptyIn, nReads,
                 err, mu, vtPos, vtOut, ptyOpen, inFull, child, snap, closePc, running,
                 keysRet, nKeys, rz>>
  /\ UNCHANGED toolVars

\* t.Wait(): <-t.done
waitDone ==
  /\ sess = "open"
  /\ waitPc = "idle"
  /\ pc = "done"
  /\ waitPc' = "done"
  /\ UNCHANGED <<sess, optRows, optCols, newErr, osStart, rows, cols, ptySize, vt,
                 rsz, nResize, pc, segs, data, i, result, pending, ptyIn, nReads,
                 err, mu, vtPos, vtOut, ptyOpen, inFull, child, snap, closePc, running,
                 keysRet, nKeys, rz>>
  /\ UNCHANGED toolVars

\* return t.cmd.Wait(): blocks until the child has exited, reaps it and returns
\* its exit status
cmdWait ==
  /\ waitPc = "done"
  /\ child = "exited"
  /\ child' = "reaped"
  /\ waitPc' = "status"
  /\ UNCHANGED <<sess, optRows, optCols, newErr, osStart, rows, cols, ptySize, vt,
                 rsz, nResize, pc, segs, data, i, result, pending, ptyIn, nReads,
                 err, mu, vtPos, vtOut, ptyOpen, inFull, snap, closePc, running,
                 keysRet, nKeys, rz>>
  /\ UNCHANGED toolVars

----------------------------------------------------------------------------
(* The polling waits WaitForStable and WaitForText *)

\* time.Sleep(50 * time.Millisecond), in ticks
PollTicks == 2

\* Variant: the text is looked for at the start of the string only
Contains_PrefixOnly(s, t) == Len(t) <= Len(s) /\ SubSeq(s, 1, Len(t)) = t

\* strings.Contains(s, t) on byte strings
Contains(s, t) == \E k \in 0..(Len(s) - Len(t)) : SubSeq(s, k + 1, k + Len(t)) = t

\* strings.Contains(screen, t) for a rendered screen and a text t of letters: the
\* letters on the grid are those written to the model
TextContains(screen, t) ==
  \/ t = <<>>
  \/ screen # EmptyText /\ Contains(screen.data, t)

\* Variant: the empty text is not excluded
containsText_NoEmptyCheck(screen, text) == TextContains(screen, text)

\* containsText(screen, text)
containsText(screen, text) ==
  text # <<>> /\ screen # EmptyText /\ TextContains(screen, text)

\* Variant: the deadline leaves room for the dwell time after the timeout
WaitForStable_LateDeadline(timeout, stableDuration) ==
  /\ sess = "open"
  /\ wl.pc = "idle"
  /\ wl' = [pc |-> "check", kind |-> "stable", timeout |-> timeout,
            deadline |-> now + timeout + stableDuration,
            dur |-> stableDuration, target |-> <<>>, last |-> EmptyText, since |-> -1,
            ret |-> "none", polls |-> <<>>]
  /\ UNCHANGED <<sess, optRows, optCols, newErr, osStart, rows, cols, ptySize, vt,
                 rsz, nResize, pc, segs, data, i, result, pending, ptyIn, nReads,
                 err, mu, vtPos, vtOut, ptyOpen, inFull, child, snap, closePc, waitPc,
                 running, keysRet, nKeys, rz, now, cfg, cmdStatus, run, timer>>

\* t.WaitForStable(timeout, stableDuration) is entered: deadline, lastScreen and
\* stableSince are set
WaitForStable(timeout, stableDuration) ==
  /\ sess = "open"
  /\ wl.pc = "idle"
  /\ wl' = [pc |-> "check", kind |-> "stable", timeout |-> timeout,
            deadline |-> now + timeout,
            dur |-> stableDuration, target |-> <<>>, last |-> EmptyText, since |-> -1,
            ret |-> "none", polls |-> <<>>]
  /\ UNCHANGED <<sess, optRows, optCols, newErr, osStart, rows, cols, ptySize, vt,
                 rsz, nResize, pc, segs, data, i, result, pending, ptyIn, nReads,
                 err, mu, vtPos, vtOut, ptyOpen, inFull, child, snap, closePc, waitPc,
                 running, keysRet, nKeys, rz, now, cfg, cmdStatus, run, timer>>

\* Variant: a change does not restart the dwell time once it runs
stablePoll_NoRestart ==
  LET screen == Render(vt)
      polled == Append(wl.polls, [at |-> now, text |-> screen])
  IN /\ wl.pc = "check" /\ wl.kind = "stable"
     /\ now < wl.deadline => mu = "free"
     /\ wl' = IF ~(now < wl.deadline)
              THEN [wl EXCEPT !.pc = "returned", !.ret = "timeout"]
              ELSE IF screen # wl.last
              THEN [wl EXCEPT !.last = screen,
                              !.since = IF wl.since = -1 THEN now ELSE wl.since,
                              !.pc = "sleep", !.polls = polled]
              ELSE IF wl.since # -1 /\ now - wl.since >= wl.dur
              THEN [wl EXCEPT !.pc = "returned", !.ret = "nil", !.polls = polled]
              ELSE [wl EXCEPT !.pc = "sleep", !.polls = polled]
     /\ UNCHANGED <<sess, optRows, optCols, newErr, osStart, rows, cols, ptySize, vt,
                    rsz, nResize, pc, segs, data, i, result, pending, ptyIn, nReads,
                    err, mu, vtPos, vtOut, ptyOpen, inFull, child, snap, closePc, waitPc,
                    running, keysRet, nKeys, rz, now, cfg, cmdStatus, run, timer>>

\* One pass of the loop of WaitForStable: the deadline test, the Screenshot under
\* the lock and the comparison with lastScreen
stablePoll ==
  LET screen == Render(vt)
      polled == Append(wl.polls, [at |-> now, text |-> screen])
  IN /\ wl.pc = "check" /\ wl.kind = "stable"
     /\ now < wl.deadline => mu = "free"
     /\ wl' = IF ~(now < wl.deadline)
              THEN [wl EXCEPT !.pc = "returned", !.ret = "timeout"]
              ELSE IF screen # wl.last
              THEN [wl EXCEPT !.last = screen, !.since = now,
                              !.pc = "sleep", !.polls = polled]
              ELSE IF wl.since # -1 /\ now - wl.since >= wl.dur
              THEN [wl EXCEPT !.pc = "returned", !.ret = "nil", !.polls = polled]
              ELSE [wl EXCEPT !.pc = "sleep", !.polls = polled]
     /\ UNCHANGED <<sess, optRows, optCols, newErr, osStart, rows, cols, ptySize, vt,
                    rsz, nResize, pc, segs, data, i, result, pending, ptyIn, nReads,
                    err, mu, vtPos, vtOut, ptyOpen, inFull, child, snap, closePc, waitPc,
                    running, keysRet, nKeys, rz, now, cfg, cmdStatus, run, timer>>

\* t.WaitForText(text, timeout) is entered: deadline is set
WaitForText(text, timeout) ==
  /\ sess = "open"
  /\ wl.pc = "idle"
  /\ wl' = [pc |-> "check", kind |-> "text", timeout |-> timeout,
            deadline |-> now + timeout,
            dur |-> 0, target |-> text, last |-> EmptyText, since |-> -1,
            ret |-> "none", polls |-> <<>>]
  /\ UNCHANGED <<sess, optRows, optCols, newErr, osStart, rows, cols, ptySize, vt,
                 rsz, nResize, pc, segs, data, i, result, pending, ptyIn, nReads,
                 err, mu, vtPos, vtOut, ptyOpen, inFull, child, snap, closePc, waitPc,
                 running, keysRet, nKeys, rz, now, cfg, cmdStatus, run, timer>>

\* One pass of the loop of WaitForText: the deadline test, the Screenshot under the
\* lock and containsText
textPoll ==
  LET screen == Render(vt)
      polled == Append(wl.polls, [at |-> now, text |-> screen])
  IN /\ wl.pc = "check" /\ wl.kind = "text"
     /\ now < wl.deadline => mu = "free"
     /\ wl' = IF ~(now < wl.deadline)
              THEN [wl EXCEPT !.pc = "returned", !.ret = "timeout"]
              ELSE IF containsText(screen, wl.target)
              THEN [wl EXCEPT !.pc = "returned", !.ret = "nil", !.polls = polled]
              ELSE [wl EXCEPT !.pc = "sleep", !.polls = polled]
     /\ UNCHANGED <<sess, optRows, optCols, newErr, osStart, rows, cols, ptySize, vt,
                    rsz, nResize, pc, segs, data, i, result, pending, ptyIn, nReads,
                    err, mu, vtPos, vtOut, ptyOpen, inFull, child, snap, closePc, waitPc,
                    running, keysRet, nKeys, rz, now, cfg, cmdStatus, run, timer>>

\* time.Sleep(50 * time.Millisecond) at the end of a pass
waitSleep ==
  /\ wl.pc = "sleep"
  /\ now' = now + PollTicks
  /\ wl' = [wl EXCEPT !.pc = "check"]
  /\ UNCHANGED <<sess, optRows, optCols, newErr, osStart, rows, cols, ptySize, vt,
                 rsz, nResize, pc, segs, data, i, result, pending, ptyIn, nReads,
                 err, mu, vtPos, vtOut, ptyOpen, inFull, child, snap, closePc, waitPc,
                 running, keysRet, nKeys, rz, cfg, cmdStatus, run, timer>>

----------------------------------------------------------------------------
(* The key constants of package terminal (keys.go), by their names. The        *)
(* control bytes 0x01 to 0x1A and 0x7F are written by their ASCII names.       *)

Key ==
  [KeyUp |-> <<ESC, "[", "A">>,
   KeyDown |-> <<ESC, "[", "B">>,
   KeyRight |-> <<ESC, "[", "C">>,
   KeyLeft |-> <<ESC, "[", "D">>,
   KeyHome |-> <<ESC, "[", "H">>,
   KeyEnd |-> <<ESC, "[", "F">>,
   KeyPgUp |-> <<ESC, "[", "5", "~">>,
   KeyPgDn |-> <<ESC, "[", "6", "~">>,
   KeyF1 |-> <<ESC, "O", "P">>,
   KeyF2 |-> <<ESC, "O", "Q">>,
   KeyF3 |-> <<ESC, "O", "R">>,
   KeyF4 |-> <<ESC, "O", "S">>,
   KeyF5 |-> <<ESC, "[", "1", "5", "~">>,
   KeyF6 |-> <<ESC, "[", "1", "7", "~">>,
   KeyF7 |-> <<ESC, "[", "1", "8", "~">>,
   KeyF8 |-> <<ESC, "[", "1", "9", "~">>,
   KeyF9 |-> <<ESC, "[", "2", "0", "~">>,
   KeyF10 |-> <<ESC, "[", "2", "1", "~">>,
   KeyF11 |-> <<ESC, "[", "2", "3", "~">>,
   KeyF12 |-> <<ESC, "[", "2", "4", "~">>,
   KeyEnter |-> <<"CR">>,
   KeyTab |-> <<"HT">>,
   KeyBackspace |-> <<"DEL">>,
   KeyEscape |-> <<ESC>>,
   KeyDelete |-> <<ESC, "[", "3", "~">>,
   KeyInsert |-> <<ESC, "[", "2", "~">>,
   KeyCtrlA |-> <<"SOH">>,
   KeyCtrlB |-> <<"STX">>,
   KeyCtrlC |-> <<"ETX">>,
   KeyCtrlD |-> <<"EOT">>,
   KeyCtrlE |-> <<"ENQ">>,
   KeyCtrlF |-> <<"ACK">>,
   KeyCtrlG |-> <<BEL>>,
   KeyCtrlH |-> <<"BS">>,
   KeyCtrlI |-> <<"HT">>,
   KeyCtrlJ |-> <<"LF">>,
   KeyCtrlK |-> <<"VT">>,
   KeyCtrlL |-> <<"FF">>,
   KeyCtrlM |-> <<"CR">>,
   KeyCtrlN |-> <<"SO">>,
   KeyCtrlO |-> <<"SI">>,
   KeyCtrlP |-> <<"DLE">>,
   KeyCtrlQ |-> <<"DC1">>,
   KeyCtrlR |-> <<"DC2">>,
   KeyCtrlS |-> <<"DC3">>,
   KeyCtrlT |-> <<"DC4">>,
   KeyCtrlU |-> <<"NAK">>,
   KeyCtrlV |-> <<"SYN">>,
   KeyCtrlW |-> <<"ETB">>,
   KeyCtrlX |-> <<"CAN">>,
   KeyCtrlY |-> <<"EM">>,
   KeyCtrlZ |-> <<"SUB">>,
   KeySpace |-> <<" ">>]

----------------------------------------------------------------------------
(* The command-line tool: key names *)

LowerLetters == <<"a", "b", "c", "d", "e", "f", "g", "h", "i", "j", "k", "l", "m",
                  "n", "o", "p", "q", "r", "s", "t", "u", "v", "w", "x", "y", "z">>

UpperLetters == <<"A", "B", "C", "D", "E", "F", "G", "H", "I", "J", "K", "L", "M",
                  "N", "O", "P", "Q", "R", "S", "T", "U", "V", "W", "X", "Y", "Z">>

\* strings.ToLower on one ASCII byte
ToLowerByte(c) ==
  IF \E k \in 1..26 : UpperLetters[k] = c
  THEN LowerLetters[CHOOSE k \in 1..26 : UpperLetters[k] = c]
  ELSE c

\* strings.ToLower(s)
ToLower(s) == [k \in 1..Len(s) |-> ToLowerByte(s[k])]

\* parseKey(s): the switch on strings.ToLower(s); the default case returns s itself
parseKey(s) ==
  LET l == ToLower(s)
  IN CASE l = <<"u", "p">> -> Key.KeyUp
       [] l = <<"d", "o", "w", "n">> -> Key.KeyDown
       [] l = <<"l", "e", "f", "t">> -> Key.KeyLeft
       [] l = <<"r", "i", "g", "h", "t">> -> Key.KeyRight
       [] l \in {<<"e", "n", "t", "e", "r">>, <<"r", "e", "t", "u", "r", "n">>} -> Key.KeyEnter
       [] l = <<"t", "a", "b">> -> Key.KeyTab
       [] l \in {<<"e", "s", "c">>, <<"e", "s", "c", "a", "p", "e">>} -> Key.KeyEscape
       [] l = <<"b", "a", "c", "k", "s", "p", "a", "c", "e">> -> Key.KeyBackspace
       [] l = <<"d", "e", "l", "e", "t", "e">> -> Key.KeyDelete
       [] l = <<"h", "o", "m", "e">> -> Key.KeyHome
       [] l = <<"e", "n", "d">> -> Key.KeyEnd
       [] l \in {<<"p", "g", "u", "p">>, <<"p", "a", "g", "e", "u", "p">>} -> Key.KeyPgUp
       [] l \in {<<"p", "g", "d", "n">>, <<"p", "a", "g", "e", "d", "o", "w", "n">>} -> Key.KeyPgDn
       [] l = <<"s", "p", "a", "c", "e">> -> Key.KeySpace
       [] l = <<"f", "1">> -> Key.KeyF1
       [] l = <<"f", "2">> -> Key.KeyF2
       [] l = <<"f", "3">> -> Key.KeyF3
       [] l = <<"f", "4">> -> Key.KeyF4
       [] l = <<"f", "5">> -> Key.KeyF5
       [] l = <<"f", "6">> -> Key.KeyF6
       [] l = <<"f", "7">> -> Key.KeyF7
       [] l = <<"f", "8">> -> Key.KeyF8
       [] l = <<"f", "9">> -> Key.KeyF9
       [] l = <<"f", "1", "0">> -> Key.KeyF10
       [] l = <<"f", "1", "1">> -> Key.KeyF11
       [] l = <<"f", "1", "2">> -> Key.KeyF12
       [] l = <<"c", "t", "r", "l", "-", "a">> -> Key.KeyCtrlA
       [] l = <<"c", "t", "r", "l", "-", "b">> -> Key.KeyCtrlB
       [] l = <<"c", "t", "r", "l", "-", "c">> -> Key.KeyCtrlC
       [] l = <<"c", "t", "r", "l", "-", "d">> -> Key.KeyCtrlD
       [] l = <<"c", "t", "r", "l", "-", "e">> -> Key.KeyCtrlE
       [] l = <<"c", "t", "r", "l", "-", "f">> -> Key.KeyCtrlF
       [] l = <<"c", "t", "r", "l", "-", "g">> -> Key.KeyCtrlG
       [] l = <<"c", "t", "r", "l", "-", "h">> -> Key.KeyCtrlH
       [] l = <<"c", "t", "r", "l", "-", "i">> -> Key.KeyCtrlI
       [] l = <<"c", "t", "r", "l", "-", "j">> -> Key.KeyCtrlJ
       [] l = <<"c", "t", "r", "l", "-", "k">> -> Key.KeyCtrlK
       [] l = <<"c", "t", "r", "l", "-", "l">> -> Key.KeyCtrlL
       [] l = <<"c", "t", "r", "l", "-", "n">> -> Key.KeyCtrlN
       [] l = <<"c", "t", "r", "l", "-", "o">> -> Key.KeyCtrlO
       [] l = <<"c", "t", "r", "l", "-", "p">> -> Key.KeyCtrlP
       [] l = <<"c", "t", "r", "l", "-", "q">> -> Key.KeyCtrlQ
       [] l = <<"c", "t", "r", "l", "-", "r">> -> Key.KeyCtrlR
       [] l = <<"c", "t", "r", "l", "-", "s">> -> Key.KeyCtrlS
       [] l = <<"c", "t", "r", "l", "-", "t">> -> Key.KeyCtrlT
       [] l = <<"c", "t", "r", "l", "-", "u">> -> Key.KeyCtrlU
       [] l = <<"c", "t", "r", "l", "-", "v">> -> Key.KeyCtrlV
       [] l = <<"c", "t", "r", "l", "-", "w">> -> Key.KeyCtrlW
       [] l = <<"c", "t", "r", "l", "-", "x">> -> Key.KeyCtrlX
       [] l = <<"c", "t", "r", "l", "-", "y">> -> Key.KeyCtrlY
       [] l = <<"c", "t", "r", "l", "-", "z">> -> Key.KeyCtrlZ
       [] OTHER -> s

----------------------------------------------------------------------------
(* The command-line tool: run.  The sleeps of run (cfg.delay, cfg.inputDelay,  *)
(* cfg.stableTime after the keys) change no state of the model; the timer of   *)
(* cfg.timeout may fire between any two steps.  captureEach is not set.        *)

\* Exit codes
ExitSuccess == 0
ExitGeneralError == 1
ExitTimeout == 2
ExitAssertionFailed == 3
ExitCommandError == 4

\* cfg.stableTimeout and cfg.stableTime, in ticks
RunStableTimeout == 3

RunStableTime == 2

\* What a read of timedOut by run can give: the goroutine that sets it shares no
\* lock or channel operation with run, so a read after the write may still give
\* false
TimedOutRead == IF timer = "fired" THEN BOOLEAN ELSE {FALSE}

\* return e from run after the terminal was created: the deferred close(done)
\* stops the timeout goroutine if its timer has not fired, the deferred
\* term.Close() follows
runReturn(e) ==
  /\ run' = [run EXCEPT !.pc = "defer", !.exit = e]
  /\ timer' = IF timer = "armed" THEN "stopped" ELSE timer

\* terminal.New has returned: on an error run returns ExitGeneralError, else it
\* defers term.Close() and starts the timeout goroutine
runAfterNew ==
  /\ run.pc = "new"
  /\ sess # "none"
  /\ IF sess = "failed"
     THEN /\ run' = [run EXCEPT !.pc = "exited", !.exit = ExitGeneralError]
          /\ UNCHANGED timer
     ELSE /\ run' = [run EXCEPT !.pc = "text"]
          /\ timer' = "armed"
  /\ UNCHANGED <<sess, optRows, optCols, newErr, osStart, rows, cols, ptySize, vt,
                 rsz, nResize, pc, segs, data, i, result, pending, ptyIn, nReads,
                 err, mu, vtPos, vtOut, ptyOpen, inFull, child, snap, closePc, waitPc,
                 running, keysRet, nKeys, rz, now, wl, cfg, cmdStatus>>

\* case <-time.After(cfg.timeout): timedOut = true; term.Close() follows
timerFire ==
  /\ timer = "armed"
  /\ timer' = "fired"
  /\ UNCHANGED <<sess, optRows, optCols, newErr, osStart, rows, cols, ptySize, vt,
                 rsz, nResize, pc, segs, data, i, result, pending, ptyIn, nReads,
                 err, mu, vtPos, vtOut, ptyOpen, inFull, child, snap, closePc, waitPc,
                 running, keysRet, nKeys, rz, now, wl, cfg, cmdStatus, run>>

\* if cfg.waitForText != "": the result of term.WaitForText decides
runText ==
  /\ run.pc = "text"
  /\ cfg.waitFor # <<>> => (wl.pc = "returned" /\ wl.kind = "text")
  /\ IF cfg.waitFor = <<>>
     THEN /\ run' = [run EXCEPT !.pc = "stable1"]
          /\ UNCHANGED <<wl, timer>>
     ELSE IF wl.ret = "timeout"
     THEN /\ \E seen \in TimedOutRead :
               runReturn(IF seen THEN ExitTimeout ELSE ExitGeneralError)
          /\ wl' = NoWl
     ELSE /\ run' = [run EXCEPT !.pc = "stable1"]
          /\ wl' = NoWl
          /\ UNCHANGED timer
  /\ UNCHANGED <<sess, optRows, optCols, newErr, osStart, rows, cols, ptySize, vt,
                 rsz, nResize, pc, segs, data, i, result, pending, ptyIn, nReads,
                 err, mu, vtPos, vtOut, ptyOpen, inFull, child, snap, closePc, waitPc,
                 running, keysRet, nKeys, rz, now, cfg, cmdStatus>>

\* if cfg.waitStable: _ = term.WaitForStable(...) before the keys
runStableBefore ==
  /\ run.pc = "stable1"
  /\ cfg.waitStable => (wl.pc = "returned" /\ wl.kind = "stable")
  /\ run' = [run EXCEPT !.pc = "keys"]
  /\ wl' = NoWl
  /\ UNCHANGED <<sess, optRows, optCols, newErr, osStart, rows, cols, ptySize, vt,
                 rsz, nResize, pc, segs, data, i, result, pending, ptyIn, nReads,
                 err, mu, vtPos, vtOut, ptyOpen, inFull, child, snap, closePc, waitPc,
                 running, keysRet, nKeys, rz, now, cfg, cmdStatus, timer>>

\* sendKeys: the next part of cfg.keys is parsed; after the last part run goes on
runParseKey ==
  /\ run.pc = "keys"
  /\ IF run.k < Len(cfg.keys)
     THEN run' = [run EXCEPT !.key = parseKey(cfg.keys[run.k + 1]),
                             !.sent = nKeys, !.pc = "send"]
     ELSE run' = [run EXCEPT !.pc = "stable2"]
  /\ UNCHANGED <<sess, optRows, optCols, newErr, osStart, rows, cols, ptySize, vt,
                 rsz, nResize, pc, segs, data, i, result, pending, ptyIn, nReads,
                 err, mu, vtPos, vtOut, ptyOpen, inFull, child, snap, closePc, waitPc,
                 running, keysRet, nKeys, rz, now, wl, cfg, cmdStatus, timer>>

\* term.SendKeys has returned: its error ends run with ExitGeneralError
runAfterSend ==
  /\ run.pc = "send"
  /\ nKeys > run.sent
  /\ IF keysRet # "nil"
     THEN runReturn(ExitGeneralError)
     ELSE /\ run' = [run EXCEPT !.k = run.k + 1, !.pc = "keys"]
          /\ UNCHANGED timer
  /\ UNCHANGED <<sess, optRows, optCols, newErr, osStart, rows, cols, ptySize, vt,
                 rsz, nResize, pc, segs, data, i, result, pending, ptyIn, nReads,
                 err, mu, vtPos, vtOut, ptyOpen, inFull, child, snap, closePc, waitPc,
                 running, keysRet, nKeys, rz, now, wl, cfg, cmdStatus>>

\* if !cfg.waitStable: _ = term.WaitForStable(...) after the keys
runStableAfter ==
  /\ run.pc = "stable2"
  /\ ~cfg.waitStable => (wl.pc = "returned" /\ wl.kind = "stable")
  /\ run' = [run EXCEPT !.pc = "capture"]
  /\ wl' = NoWl
  /\ UNCHANGED <<sess, optRows, optCols, newErr, osStart, rows, cols, ptySize, vt,
                 rsz, nResize, pc, segs, data, i, result, pending, ptyIn, nReads,
                 err, mu, vtPos, vtOut, ptyOpen, inFull, child, snap, closePc, waitPc,
                 running, keysRet, nKeys, rz, now, cfg, cmdStatus, timer>>

\* captureScreen: the screen text the snapshot returned becomes finalResult.Screen
runCapture ==
  /\ run.pc = "capture"
  /\ snap.taken
  /\ run' = [run EXCEPT !.final = Render(snap), !.captured = TRUE, !.pc = "assert"]
  /\ UNCHANGED <<sess, optRows, optCols, newErr, osStart, rows, cols, ptySize, vt,
                 rsz, nResize, pc, segs, data, i, result, pending, ptyIn, nReads,
                 err, mu, vtPos, vtOut, ptyOpen, inFull, child, snap, closePc, waitPc,
                 running, keysRet, nKeys, rz, now, wl, cfg, cmdStatus, timer>>

\* Variant: the assertions fail only when every text is missing
runAssert_AllMissing ==
  /\ run.pc = "assert"
  /\ IF /\ cfg.asserts # <<>>
        /\ \A k \in 1..Len(cfg.asserts) : ~TextContains(run.final, cfg.asserts[k])
     THEN runReturn(ExitAssertionFailed)
     ELSE /\ run' = [run EXCEPT !.pc = "out"]
          /\ UNCHANGED timer
  /\ UNCHANGED <<sess, optRows, optCols, newErr, osStart, rows, cols, ptySize, vt,
                 rsz, nResize, pc, segs, data, i, result, pending, ptyIn, nReads,
                 err, mu, vtPos, vtOut, ptyOpen, inFull, child, snap, closePc, waitPc,
                 running, keysRet, nKeys, rz, now, wl, cfg, cmdStatus>>

\* The loop over cfg.asserts: the first text the final screen does not contain
\* ends run with ExitAssertionFailed
runAssert ==
  /\ run.pc = "assert"
  /\ IF \E k \in 1..Len(cfg.asserts) : ~TextContains(run.final, cfg.asserts[k])
     THEN runReturn(ExitAssertionFailed)
     ELSE /\ run' = [run EXCEPT !.pc = "out"]
          /\ UNCHANGED timer
  /\ UNCHANGED <<sess, optRows, optCols, newErr, osStart, rows, cols, ptySize, vt,
                 rsz, nResize, pc, segs, data, i, result, pending, ptyIn, nReads,
                 err, mu, vtPos, vtOut, ptyOpen, inFull, child, snap, closePc, waitPc,
                 running, keysRet, nKeys, rz, now, wl, cfg, cmdStatus>>

\* if timedOut { return ExitTimeout }; return ExitSuccess
runFinish ==
  /\ run.pc = "out"
  /\ \E seen \in TimedOutRead : runReturn(IF seen THEN ExitTimeout ELSE ExitSuccess)
  /\ UNCHANGED <<sess, optRows, optCols, newErr, osStart, rows, cols, ptySize, vt,
                 rsz, nResize, pc, segs, data, i, result, pending, ptyIn, nReads,
                 err, mu, vtPos, vtOut, ptyOpen, inFull, child, snap, closePc, waitPc,
                 running, keysRet, nKeys, rz, now, wl, cfg, cmdStatus>>

\* The deferred term.Close() has returned: run is left
runExit ==
  /\ run.pc = "defer"
  /\ closePc[1] = "nil"
  /\ run' = [run EXCEPT !.pc = "exited"]
  /\ UNCHANGED <<sess, optRows, optCols, newErr, osStart, rows, cols, ptySize, vt,
                 rsz, nResize, pc, segs, data, i, result, pending, ptyIn, nReads,
                 err, mu, vtPos, vtOut, ptyOpen, inFull, child, snap, closePc, waitPc,
                 running, keysRet, nKeys, rz, now, wl, cfg, cmdStatus, timer>>

----------------------------------------------------------------------------
(* The child process *)

\* The child reads its input: the PTY's input queue has room again
childRead ==
  /\ child = "running"
  /\ inFull
  /\ inFull' = FALSE
  /\ UNCHANGED <<sess, optRows, optCols, newErr, osStart, rows, cols, ptySize, vt,
                 rsz, nResize, pc, segs, data, i, result, pending, ptyIn, nReads,
                 err, mu, vtPos, vtOut, ptyOpen, child, snap, closePc, waitPc, running,
                 keysRet, nKeys, rz>>
  /\ UNCHANGED toolVars

\* The child exits by itself
childExit ==
  /\ child = "running"
  /\ child' = "exited"
  /\ UNCHANGED <<sess, optRows, optCols, newErr, osStart, rows, cols, ptySize, vt,
                 rsz, nResize, pc, segs, data, i, result, pending, ptyIn, nReads,
                 err, mu, vtPos, vtOut, ptyOpen, inFull, snap, closePc, waitPc,
                 running, keysRet, nKeys, rz>>
  /\ UNCHANGED toolVars

----------------------------------------------------------------------------
(* Specifications *)

Next ==
  \/ \E r \in DimValues, c \in DimValues, ok \in BOOLEAN : New(r, c, ok)
  \/ \E r \in DimValues, c \in DimValues, ok \in BOOLEAN : Resize(c, r, ok)
  \/ nReads < MaxReads /\ \E ss \in SessionChunks : readLoopRead(ss)
  \/ readLoopEOF
  \/ readLoopError
  \/ scanPass
  \/ scanFixedQuery
  \/ scanSizeQuery
  \/ respondWrite
  \/ readLoopWrite

Spec == Init /\ [][Next]_vars

\* The interceptor on its own: a session of the default size has just read a chunk
InitFilter ==
  /\ sess = "open" /\ optRows = 0 /\ optCols = 0 /\ newErr = "none" /\ osStart = "ok"
  /\ rows = 24 /\ cols = 80 /\ ptySize = [rows |-> 24, cols |-> 80]
  /\ vt = vt10xNew(80, 24, TRUE)
  /\ rsz = NoResize /\ nResize = 0
  /\ pc = "scan"
  /\ \E n \in 1..MaxSegs : segs \in [1..n -> FilterTokens]
  /\ data = Flatten(segs)
  /\ i = 0 /\ result = <<>>
  /\ pending = NoPending /\ ptyIn = <<>> /\ nReads = 1 /\ err = "none"
  /\ mu = "free" /\ vtPos = 0 /\ vtOut = <<>>
  /\ ptyOpen = TRUE /\ inFull = FALSE /\ child = "running"
  /\ snap = NoSnap /\ closePc = [c \in Closers |-> "idle"] /\ waitPc = "idle"
  /\ running = "none" /\ keysRet = "none" /\ nKeys = 0 /\ rz = NoRz
  /\ now = 0 /\ wl = NoWl /\ cfg = NoCfg /\ cmdStatus = 0 /\ run = NoRun /\ timer = "none"

NextFilter ==
  \/ scanPass
  \/ scanFixedQuery
  \/ scanSizeQuery
  \/ respondWrite
  \/ readLoopWrite

SpecFilter == InitFilter /\ [][NextFilter]_vars

\* A session of the default size, as a successful New leaves it
InitOpen ==
  /\ sess = "open" /\ optRows = 0 /\ optCols = 0 /\ newErr = "none" /\ osStart = "ok"
  /\ rows = 24 /\ cols = 80 /\ ptySize = [rows |-> 24, cols |-> 80]
  /\ vt = vt10xNew(80, 24, TRUE)
  /\ rsz = NoResize /\ nResize = 0
  /\ pc = "read" /\ segs = <<>> /\ data = <<>> /\ i = 0 /\ result = <<>>
  /\ pending = NoPending /\ ptyIn = <<>> /\ nReads = 0 /\ err = "none"
  /\ mu = "free" /\ vtPos = 0 /\ vtOut = <<>>
  /\ ptyOpen = TRUE /\ inFull = FALSE /\ child = "running"
  /\ snap = NoSnap /\ closePc = [c \in Closers |-> "idle"] /\ waitPc = "idle"
  /\ running = "none" /\ keysRet = "none" /\ nKeys = 0 /\ rz = NoRz
  /\ now = 0 /\ wl = NoWl /\ cfg = NoCfg /\ cmdStatus = 0 /\ run = NoRun /\ timer = "none"

\* The chunks the child writes while snapshots and resizes go on
SnapChunks == { <<<<"A">>, <<"B">>>>, <<qDSR6>> }

\* The (cols, rows) a caller passes to Resize
SnapDims == { <<132, 43>>, <<0, 24>>, <<65536, 24>> }

\* The (rows, cols) a caller passes to New
NewDims == { <<0, 0>>, <<43, 132>>, <<24, 65536>> }

\* One step of the reader loop, its write at the grain of the lock
ReaderStep ==
  \/ readLoopEOF
  \/ readLoopError
  \/ scanPass
  \/ scanFixedQuery
  \/ readLoopSkip
  \/ readLoopLock
  \/ vtWriteByte
  \/ vtAnswer
  \/ readLoopUnlock

\* A session from its creation: the reader loop against Screenshot, Resize and
\* SendKeys
NextSnap ==
  \/ \E d \in NewDims, ok \in BOOLEAN : New(d[1], d[2], ok)
  \/ nReads < MaxReads + 1 /\ \E ss \in SnapChunks : readLoopRead(ss)
  \/ scanPass
  \/ readLoopLock
  \/ vtWriteByte
  \/ vtAnswer
  \/ readLoopUnlock
  \/ Screenshot
  \/ nKeys < MaxKeys /\ \E k \in Keys, full \in BOOLEAN : SendKeys(k, full)
  \/ childRead
  \/ nResize < MaxResizes /\ \E d \in SnapDims : ResizeReject(d[1], d[2])
  \/ nResize < MaxResizes /\ \E d \in SnapDims : ResizeLock(d[1], d[2])
  \/ \E ok \in BOOLEAN : ResizeSetsize(ok)
  \/ ResizeApply

SpecSnap == Init /\ [][NextSnap]_vars

\* The chunks the child writes during the life of the session
LifeChunks == { <<<<"A">>>>, <<qDSR5>>, <<qDA1>> }

CloseStep(c) == closeKill(c) \/ closeFile(c) \/ closeDone(c)

WaitStep == waitDone \/ cmdWait

\* The life of a session: the reader loop, the child, Close from two callers,
\* Wait, IsRunning and SendKeys
NextLife ==
  \/ nReads < MaxReads /\ \E ss \in LifeChunks : readLoopRead(ss)
  \/ ReaderStep
  \/ \E c \in Closers : CloseStep(c)
  \/ WaitStep
  \/ IsRunning
  \/ nKeys < MaxKeys /\ \E k \in Keys, full \in BOOLEAN : SendKeys(k, full)
  \/ childRead
  \/ childExit

\* The goroutines are scheduled fairly: the reader loop, each Close call and the
\* Wait call take their next step when they can. Nothing is assumed of the child
SpecLife ==
  /\ InitOpen /\ [][NextLife]_vars
  /\ WF_vars(ReaderStep)
  /\ \A c \in Closers : WF_vars(CloseStep(c))
  /\ WF_vars(WaitStep)

\* The chunks the child writes while a wait call polls
WaitChunks == { <<<<"A">>>>, <<<<"B">>>> }

\* The (cols, rows) a caller passes to Resize while a wait call polls
WaitDims == { <<80, 0>>, <<132, 43>> }

\* The timeouts and the stable durations of the wait calls, in ticks
WaitTimeouts == {0, 3, MaxWait}

WaitDurations == {0, 2, 4}

\* The texts waited for
WaitTexts == { <<>>, <<"A">>, <<"A", "B">> }

\* One step of the goroutine inside a wait call
WaitLoopStep == stablePoll \/ textPoll \/ waitSleep

\* A wait call polling the screen while the reader loop writes to it and a
\* Resize replaces it
NextWait ==
  \/ nReads < MaxReads + 1 /\ \E ss \in WaitChunks : readLoopRead(ss)
  \/ scanPass
  \/ readLoopWrite
  \/ \E d \in WaitDims, ok \in BOOLEAN : Resize(d[1], d[2], ok)
  \/ \E T \in WaitTimeouts, d \in WaitDurations : WaitForStable(T, d)
  \/ \E t \in WaitTexts, T \in WaitTimeouts : WaitForText(t, T)
  \/ stablePoll
  \/ textPoll
  \/ waitSleep

\* The goroutine that made the wait call keeps running
SpecWait == InitOpen /\ [][NextWait]_vars /\ WF_vars(WaitLoopStep)

\* The flags run is started with: the default size, -wait-for, -wait-stable,
\* -keys as the list of its parts and the -assert texts
RunCfgs == [rows : {24}, cols : {80}, waitFor : { <<>>, <<"A">> },
            waitStable : BOOLEAN,
            keys : { <<>>, << <<"j">> >>, << <<"U", "p">>, <<"j">> >> },
            asserts : { <<>>, << <<"A">> >>, << <<"A">>, <<"B">> >> }]

\* The exit statuses the target command ends with
CmdStatuses == {0, 1}

\* The chunks the child writes while run goes on
RunChunks == { <<<<"A">>>>, <<<<"A", "B">>>> }

\* run is entered with its flags parsed
InitRun ==
  /\ sess = "none" /\ optRows = 0 /\ optCols = 0 /\ newErr = "none" /\ osStart = "notcalled"
  /\ rows = 0 /\ cols = 0 /\ ptySize = [rows |-> 0, cols |-> 0] /\ vt = NoVt
  /\ rsz = NoResize /\ nResize = 0
  /\ pc = "idle" /\ segs = <<>> /\ data = <<>> /\ i = 0 /\ result = <<>>
  /\ pending = NoPending /\ ptyIn = <<>> /\ nReads = 0 /\ err = "none"
  /\ mu = "free" /\ vtPos = 0 /\ vtOut = <<>>
  /\ ptyOpen = FALSE /\ inFull = FALSE /\ child = "none"
  /\ snap = NoSnap /\ closePc = [c \in Closers |-> "idle"] /\ waitPc = "idle"
  /\ running = "none" /\ keysRet = "none" /\ nKeys = 0 /\ rz = NoRz
  /\ now = 0 /\ wl = NoWl /\ timer = "none"
  /\ cfg \in RunCfgs /\ cmdStatus \in CmdStatuses
  /\ run = [NoRun EXCEPT !.pc = "new"]

\* One step of run itself
RunStep ==
  \/ runAfterNew
  \/ runText
  \/ runStableBefore
  \/ runParseKey
  \/ runAfterSend
  \/ runStableAfter
  \/ runCapture
  \/ runAssert
  \/ runFinish
  \/ runExit

\* run with the calls it makes on the session, its timeout goroutine, the reader
\* loop and the child
NextRun ==
  \/ run.pc = "new" /\ \E ok \in BOOLEAN : New(cfg.rows, cfg.cols, ok)
  \/ RunStep
  \/ timerFire
  \/ timer = "fired" /\ CloseStep(2)
  \/ run.pc = "defer" /\ CloseStep(1)
  \/ run.pc = "text" /\ cfg.waitFor # <<>> /\ WaitForText(cfg.waitFor, RunStableTimeout)
  \/ run.pc = "stable1" /\ cfg.waitStable
       /\ WaitForStable(RunStableTimeout, RunStableTime)
  \/ run.pc = "stable2" /\ ~cfg.waitStable
       /\ WaitForStable(RunStableTimeout, RunStableTime)
  \/ WaitLoopStep
  \/ run.pc = "send" /\ nKeys = run.sent /\ SendKeys(run.key, FALSE)
  \/ run.pc = "capture" /\ ~snap.taken /\ Screenshot
  \/ nReads < MaxReads /\ \E ss \in RunChunks : readLoopRead(ss)
  \/ scanPass
  \/ readLoopWrite
  \/ readLoopEOF
  \/ readLoopError
  \/ childExit

SpecRun == InitRun /\ [][NextRun]_vars

\* The key names given to -keys: ctrl-x in three spellings for every letter x in
\* both cases, some other names of keys and some texts
KeyNames ==
  LET CtrlPrefixes == { <<"c", "t", "r", "l", "-">>, <<"C", "T", "R", "L", "-">>,
                        <<"C", "t", "r", "l", "-">> }
      Letters == { LowerLetters[k] : k \in 1..26 } \cup { UpperLetters[k] : k \in 1..26 }
  IN { p \o <<x>> : p \in CtrlPrefixes, x \in Letters }
       \cup { <<"j">>, <<"u", "p">>, <<"U", "p">>, <<"F", "1">>, <<"f", "1", "3">>,
              <<"c", "t", "r", "l", "-">>, <<"c", "t", "r", "l", "-", "1">>,
              <<"c", "t", "r", "l", "-", "a", "a">>, <<"H", "i">> }

\* sendKeys on an open session, for one key name
InitKeys ==
  /\ sess = "open" /\ optRows = 0 /\ optCols = 0 /\ newErr = "none" /\ osStart = "ok"
  /\ rows = 24 /\ cols = 80 /\ ptySize = [rows |-> 24, cols |-> 80]
  /\ vt = vt10xNew(80, 24, TRUE)
  /\ rsz = NoResize /\ nResize = 0
  /\ pc = "read" /\ segs = <<>> /\ data = <<>> /\ i = 0 /\ result = <<>>
  /\ pending = NoPending /\ ptyIn = <<>> /\ nReads = 0 /\ err = "none"
  /\ mu = "free" /\ vtPos = 0 /\ vtOut = <<>>
  /\ ptyOpen = TRUE /\ inFull = FALSE /\ child = "running"
  /\ snap = NoSnap /\ closePc = [c \in Closers |-> "idle"] /\ waitPc = "idle"
  /\ running = "none" /\ keysRet = "none" /\ nKeys = 0 /\ rz = NoRz
  /\ now = 0 /\ wl = NoWl /\ cmdStatus = 0 /\ timer = "armed"
  /\ \E n \in KeyNames : cfg = [NoCfg EXCEPT !.keys = <<n>>]
  /\ run = [NoRun EXCEPT !.pc = "keys"]

NextKeys ==
  \/ runParseKey
  \/ run.pc = "send" /\ nKeys = run.sent /\ SendKeys(run.key, FALSE)
  \/ runAfterSend

SpecKeys == InitKeys /\ [][NextKeys]_vars

\* A wait call polling the screen while the reader loop writes to it at the grain
\* of the lock, the caller sends keys and the child reads them or not
NextPoll ==
  \/ nReads < MaxReads /\ \E ss \in LifeChunks : readLoopRead(ss)
  \/ ReaderStep
  \/ nKeys < MaxKeys /\ \E k \in Keys, full \in BOOLEAN : SendKeys(k, full)
  \/ childRead
  \/ \E T \in WaitTimeouts, d \in WaitDurations : WaitForStable(T, d)
  \/ \E t \in WaitTexts, T \in WaitTimeouts : WaitForText(t, T)
  \/ WaitLoopStep

\* The goroutine in the wait call and the reader loop keep running; nothing is
\* assumed of the child
SpecPoll ==
  /\ InitOpen /\ [][NextPoll]_vars
  /\ WF_vars(WaitLoopStep)
  /\ WF_vars(ReaderStep)

\* The reader loop and Close from two callers, with Resize and Screenshot calls
\* before and after Close
NextClosed ==
  \/ nReads < MaxReads /\ \E ss \in LifeChunks : readLoopRead(ss)
  \/ ReaderStep
  \/ \E c \in Closers : CloseStep(c)
  \/ \E d \in SnapDims, ok \in BOOLEAN : Resize(d[1], d[2], ok)
  \/ Screenshot

SpecClosed == InitOpen /\ [][NextClosed]_vars

\* The chunks of a child that asks for the size
SizeChunks == { <<q14t>>, <<q18t, <<"A">>>>, <<q19t, q18t>> }

\* The (cols, rows) of the Resize calls made while it asks
SizeDims == { <<132, 43>>, <<100, 30>> }

\* The reader loop answering size queries while Resize calls run, the
\* assignments of Resize taken one by one
NextSize ==
  \/ nReads < MaxReads + 1 /\ \E ss \in SizeChunks : readLoopRead(ss)
  \/ scanPass
  \/ scanSizeQuery
  \/ respondWrite
  \/ readLoopWrite
  \/ nResize < MaxResizes + 1 /\ \E d \in SizeDims : ResizeLock(d[1], d[2])
  \/ \E ok \in BOOLEAN : ResizeSetsize(ok)
  \/ ResizeRows
  \/ ResizeRest

SpecSize == InitOpen /\ [][NextSize]_vars

----------------------------------------------------------------------------
(* Vocabulary of the properties *)

InRange(x) == x >= 0 /\ x <= 65535

\* handleTerminalQueries has returned for the chunk read last
Returned == nReads > 0 /\ (pc \in {"read", "done"} \/ (pc = "scan" /\ i >= Len(data)))

IsPlain(t) == t \in PlainTokens
IsQuery(t) == t \in QueryTokens
IsPass(t)  == t \notin QueryTokens

\* The answer each query is to receive, for a session of 24 rows and 80 columns
ExpectedAnswer(q) ==
  CASE q \in {qDA1, qDA1Zero} -> <<ESC, "[", "?", "6", "2", ";", "4", "c">>
    [] q \in {qDA2, qDA2Zero} -> <<ESC, "[", ">", "1", ";", "0", ";", "0", "c">>
    [] q = q14t -> <<ESC, "[", "4", ";", "3", "8", "4", ";", "6", "4", "0", "t">>
    [] q = q18t -> <<ESC, "[", "8", ";", "2", "4", ";", "8", "0", "t">>
    [] q = q19t -> <<ESC, "[", "9", ";", "2", "4", ";", "8", "0", "t">>
    [] q \in {qFgBEL, qFgST} ->
         <<ESC, "]", "1", "0", ";", "r", "g", "b", ":", "f", "f", "f", "f", "/",
           "f", "f", "f", "f", "/", "f", "f", "f", "f", ESC, "\\">>
    [] q \in {qBgBEL, qBgST} ->
         <<ESC, "]", "1", "1", ";", "r", "g", "b", ":", "0", "0", "0", "0", "/",
           "0", "0", "0", "0", "/", "0", "0", "0", "0", ESC, "\\">>

\* The bytes of the pieces ss that are not queries, in order
PassOf(ss) == Flatten(SelectSeq(ss, IsPass))

\* The answers to the queries among the pieces ss, in order
AnswersOf(ss) ==
  LET qs == SelectSeq(ss, IsQuery) IN [k \in 1..Len(qs) |-> ExpectedAnswer(qs[k])]

\* The number of bytes in the first k pieces of the chunk
Boundary(k) == Len(Flatten(SubSeq(segs, 1, k)))

HasNoESC(d) == \A k \in 1..Len(d) : d[k] # ESC

----------------------------------------------------------------------------
(* C1: New succeeds for rows and cols in [0, 65535] (the PTY start          *)
(* permitting) and fails with the dimension error when either is above     *)
(* 65535; Resize accepts and rejects exactly the same values.              *)

C1_DimensionValidation ==
  /\ sess # "none" =>
       /\ (InRange(optRows) /\ InRange(optCols)) =>
            \/ sess = "open" /\ newErr = "none"
            \/ sess = "failed" /\ newErr = "start" /\ osStart = "fail"
       /\ (optRows > 65535 \/ optCols > 65535) => (sess = "failed" /\ newErr = "dims")
       /\ newErr = "dims" <=> ~(InRange(optRows) /\ InRange(optCols))
  /\ rsz.err # "notcalled" =>
       /\ (InRange(rsz.rows) /\ InRange(rsz.cols)) => rsz.err \in {"none", "os"}
       /\ (rsz.rows > 65535 \/ rsz.cols > 65535) => rsz.err = "dims"
       /\ rsz.err = "dims" <=> ~(InRange(rsz.rows) /\ InRange(rsz.cols))

C1_Witness ==
  /\ sess = "open" /\ optRows = 65535 /\ optCols = 0
  /\ rsz.err = "dims" /\ rsz.rows = 0 /\ rsz.cols = 65536

----------------------------------------------------------------------------
(* C2 as stated: after a successful New (and before any Resize) the PTY    *)
(* size, the model size and the recorded size all equal the requested      *)
(* (rows, cols).                                                           *)

C2_RequestedSizeApplied ==
  (sess = "open" /\ nResize = 0) =>
    /\ ptySize = [rows |-> optRows, cols |-> optCols]
    /\ vt.rows = optRows /\ vt.cols = optCols
    /\ rows = optRows /\ cols = optCols

(* C2 amended: they all equal the requested (rows, cols) with a requested  *)
(* 0 replaced by the default, 24 rows or 80 columns.                       *)

C2_EffectiveSizeApplied ==
  (sess = "open" /\ nResize = 0) =>
    LET R == IF optRows = 0 THEN 24 ELSE optRows
        C == IF optCols = 0 THEN 80 ELSE optCols
    IN /\ ptySize = [rows |-> R, cols |-> C]
       /\ vt.rows = R /\ vt.cols = C
       /\ rows = R /\ cols = C

C2_Witness ==
  /\ sess = "open" /\ nResize = 0
  /\ optRows = 0 /\ optCols = 65535
  /\ rows = 24 /\ ptySize.cols = 65535 /\ vt.rows = 24

----------------------------------------------------------------------------
(* C3: a device-attributes query alone in a buffer is filtered to the      *)
(* empty buffer with exactly one PTY write, ESC[?62;4c for ESC[c and       *)
(* ESC[0c, ESC[>1;0;0c for ESC[>c and ESC[>0c.                             *)

C3_DeviceAttributesAlone ==
  \A q \in DAQueries :
    segs = <<q>> =>
      /\ Len(ptyIn) <= 1
      /\ Returned => (result = <<>> /\ ptyIn = <<ExpectedAnswer(q)>>)

C3_Witness ==
  /\ segs = <<qDA2Zero>> /\ Returned
  /\ result = <<>> /\ ptyIn = <<<<ESC, "[", ">", "1", ";", "0", ";", "0", "c">>>>

----------------------------------------------------------------------------
(* C4: a buffer with no escape byte is returned unchanged and causes no    *)
(* PTY write.                                                              *)

C4_NoEscapeIdentity ==
  HasNoESC(data) =>
    /\ ptyIn = <<>>
    /\ result = SubSeq(data, 1, i)
    /\ Returned => result = data

C4_Witness ==
  /\ HasNoESC(data) /\ Returned
  /\ data = <<"A", "[", "c">> /\ result = data /\ ptyIn = <<>>

----------------------------------------------------------------------------
(* C5: for plain bytes interleaved with complete recognized queries, the   *)
(* output is the plain bytes in order, there is one response per query in  *)
(* the order of the queries, and each response is written when the scan    *)
(* has passed exactly the bytes before its query.                          *)

C5_Interleaving ==
  (\A k \in 1..Len(segs) : IsPlain(segs[k]) \/ IsQuery(segs[k])) =>
    /\ pc \in {"scan", "respond"} =>
         \E k \in 0..Len(segs) :
           /\ i = Boundary(k)
           /\ result = PassOf(SubSeq(segs, 1, k))
           /\ ptyIn = AnswersOf(SubSeq(segs, 1, k))
    /\ pc = "read" => (vt.data = PassOf(segs) /\ ptyIn = AnswersOf(segs))

C5_Witness ==
  /\ segs = <<<<"A">>, qDA1, <<"B">>>>
  /\ pc = "scan" /\ i = 4
  /\ result = <<"A">>
  /\ ptyIn = <<<<ESC, "[", "?", "6", "2", ";", "4", "c">>>>

----------------------------------------------------------------------------
(* C6: a size query is answered from the size the session records when     *)
(* the query is handled, whatever resizes came before: ESC[14t yields      *)
(* ESC[4;rows*16;cols*8t (ESC[4;384;640t for 24 x 80), ESC[18t yields      *)
(* ESC[8;rows;colst, ESC[19t yields ESC[9;rows;colst; the five bytes of    *)
(* the query never reach the virtual screen model.                         *)

SizeTokenAt(d, k) == k + 5 <= Len(d) /\ SubSeq(d, k + 1, k + 5) \in SizeQueryTokens

ExpectedSizeAnswer(q, r, c) ==
  CASE q = q14t -> <<ESC, "[", "4", ";">> \o Itoa(r * 16) \o <<";">> \o Itoa(c * 8) \o <<"t">>
    [] q = q18t -> <<ESC, "[", "8", ";">> \o Itoa(r) \o <<";">> \o Itoa(c) \o <<"t">>
    [] q = q19t -> <<ESC, "[", "9", ";">> \o Itoa(r) \o <<";">> \o Itoa(c) \o <<"t">>

ReaderMoved == <<pc, i, result, ptyIn>>' # <<pc, i, result, ptyIn>>

C6_Step ==
  /\ (pc = "scan" /\ i < Len(data) /\ SizeTokenAt(data, i) /\ ReaderMoved) =>
       /\ pc' = "respond"
       /\ pending'.rows = rows /\ pending'.cols = cols
       /\ i' = i /\ result' = result /\ ptyIn' = ptyIn
  /\ (pc = "respond" /\ ReaderMoved) =>
       LET q == SubSeq(data, i + 1, i + 5)
       IN /\ SizeTokenAt(data, i)
          /\ ptyIn' = Append(ptyIn, ExpectedSizeAnswer(q, pending.rows, pending.cols))
          /\ (pending.rows = 24 /\ pending.cols = 80) =>
               ptyIn'[Len(ptyIn')] = ExpectedAnswer(q)
          /\ i' = i + 5 /\ result' = result /\ pc' = "scan"
  /\ (pc = "scan" /\ i >= Len(data) /\ ReaderMoved) =>
       /\ pc' = "read"
       /\ vt'.data = vt.data \o PassOf(segs)

C6_SizeQueryAnswer ==
  /\ [](Returned => result = PassOf(segs))
  /\ [][C6_Step]_vars

C6_Witness ==
  /\ rsz.err = "none" /\ rsz.rows = 65535 /\ rsz.cols = 24
  /\ segs = <<q14t>> /\ Returned /\ result = <<>>
  /\ ptyIn = <<<<ESC, "[", "4", ";", "1", "0", "4", "8", "5", "6", "0", ";",
                 "1", "9", "2", "t">>>>

----------------------------------------------------------------------------
(* C7 as stated: a colour query among plain bytes is removed from its ESC  *)
(* through its terminator and answered once, by ESC]10;rgb:ffff/ffff/ffff  *)
(* (foreground) or ESC]11;rgb:0000/0000/0000 (background) followed by the  *)
(* terminator the query used.                                              *)

OneColourQuery(ss) ==
  \E k \in 1..Len(ss) :
    /\ ss[k] \in OSCQueries
    /\ \A j \in 1..Len(ss) : j # k => IsPlain(ss[j])

TheColourQuery(ss) == ss[CHOOSE k \in 1..Len(ss) : ss[k] \in OSCQueries]

ColourBody(q) ==
  IF q[4] = "0"
  THEN <<ESC, "]", "1", "0", ";", "r", "g", "b", ":", "f", "f", "f", "f", "/",
         "f", "f", "f", "f", "/", "f", "f", "f", "f">>
  ELSE <<ESC, "]", "1", "1", ";", "r", "g", "b", ":", "0", "0", "0", "0", "/",
         "0", "0", "0", "0", "/", "0", "0", "0", "0">>

TerminatorOf(q) == IF q[Len(q)] = BEL THEN <<BEL>> ELSE <<ESC, "\\">>

C7_AnswerEchoesTerminator ==
  (OneColourQuery(segs) /\ Returned) =>
    /\ result = PassOf(segs)
    /\ ptyIn = <<ColourBody(TheColourQuery(segs)) \o TerminatorOf(TheColourQuery(segs))>>

(* C7 amended: the answer always ends with the two bytes ESC \, also when  *)
(* the query ended with BEL.                                               *)

C7_AnswerEndsWithST ==
  OneColourQuery(segs) =>
    /\ Len(ptyIn) <= 1
    /\ Returned =>
         /\ result = PassOf(segs)
         /\ ptyIn = <<ColourBody(TheColourQuery(segs)) \o <<ESC, "\\">>>>

C7_Witness ==
  /\ segs = <<<<"A">>, qFgBEL, <<"B">>>> /\ Returned
  /\ result = <<"A", "B">>
  /\ ptyIn = <<respondToForegroundColorQuery>>

----------------------------------------------------------------------------
(* C8: after a prefix ESC]10; or ESC]11; with no terminator behind it in   *)
(* the buffer, nothing is matched as a colour query: the ESC of the prefix *)
(* is passed through, no colour response is written from there on, and     *)
(* where no CSI query follows the rest of the buffer is output unchanged.  *)

UnterminatedAt(d, p) ==
  /\ p + 5 <= Len(d)
  /\ d[p + 1] = ESC /\ d[p + 2] = "]" /\ d[p + 3] = "1"
  /\ d[p + 4] \in {"0", "1"} /\ d[p + 5] = ";"
  /\ \A k \in (p + 6)..Len(d) :
       /\ d[k] # BEL
       /\ ~(d[k] = ESC /\ k + 1 <= Len(d) /\ d[k + 1] = "\\")

ColourAnswers ==
  { ColourBody(q) \o t : q \in OSCQueries, t \in {<<BEL>>, <<ESC, "\\">>} }

C8_Inv ==
  \A p \in 0..(Len(data) - 1) :
    (UnterminatedAt(data, p) /\ Returned /\ (\A k \in (p + 1)..Len(data) : data[k] # "[")) =>
      /\ Len(result) >= Len(data) - p
      /\ SubSeq(result, Len(result) - (Len(data) - p) + 1, Len(result))
           = SubSeq(data, p + 1, Len(data))
      /\ p = 0 => ptyIn = <<>>

C8_Step ==
  \A p \in 0..(Len(data) - 1) :
    (UnterminatedAt(data, p) /\ pc \in {"scan", "respond"} /\ i >= p /\ ReaderMoved) =>
      /\ \/ ptyIn' = ptyIn
         \/ /\ ptyIn' = Append(ptyIn, ptyIn'[Len(ptyIn')])
            /\ ptyIn'[Len(ptyIn')] \notin ColourAnswers
      /\ i = p => (i' = i + 1 /\ result' = Append(result, ESC) /\ ptyIn' = ptyIn)

C8_UnterminatedColourQuery == []C8_Inv /\ [][C8_Step]_vars

C8_Witness ==
  /\ segs = <<<<"A">>, <<ESC, "]", "1", "0", ";">>, <<"c">>>>
  /\ Returned /\ result = data /\ ptyIn = <<>>

----------------------------------------------------------------------------
(* C9: the filter returns for every buffer and its output is the input     *)
(* without the matched query spans: each scan step either copies the byte  *)
(* at the scan position or skips a span for which it writes one response,  *)
(* and a query prefix cut short by the end of the buffer is copied and     *)
(* causes no write.                                                        *)

TruncatedAtEnd(ss) ==
  /\ Len(ss) >= 1
  /\ ss[Len(ss)] \in TruncatedTokens
  /\ \A k \in 1..(Len(ss) - 1) : ss[k] \in PlainTokens \cup DSRQueries \cup QueryTokens

C9_Inv ==
  /\ i <= Len(data)
  /\ Len(result) <= i
  /\ TruncatedAtEnd(segs) =>
       /\ i >= Boundary(Len(segs) - 1) => ptyIn = AnswersOf(segs)
       /\ Returned => result = PassOf(segs)

C9_Step ==
  /\ (pc = "scan" /\ i < Len(data) /\ ReaderMoved) =>
       \/ /\ i' = i + 1 /\ result' = Append(result, data[i + 1]) /\ ptyIn' = ptyIn
       \/ /\ i' > i /\ i' <= Len(data) /\ result' = result
          /\ Len(ptyIn') = Len(ptyIn) + 1
       \/ /\ pc' = "respond" /\ i' = i /\ result' = result /\ ptyIn' = ptyIn
  /\ (pc = "respond" /\ ReaderMoved) =>
       /\ i' > i /\ i' <= Len(data) /\ result' = result
       /\ Len(ptyIn') = Len(ptyIn) + 1

C9_GarbageSafe == []C9_Inv /\ [][C9_Step]_vars

C9_Witness ==
  /\ segs = <<<<"A">>, qDA1, <<ESC, "[", "1", "4">>>> /\ Returned
  /\ result = <<"A", ESC, "[", "1", "4">>
  /\ ptyIn = <<respondToDA1>>

----------------------------------------------------------------------------
(* C10: the device-status-report queries ESC[5n and ESC[6n are not         *)
(* intercepted: their bytes are output and reach the virtual screen model  *)
(* unchanged and the filter writes no response for them.                   *)

HasDSR(ss) ==
  /\ \A k \in 1..Len(ss) : ss[k] \in PlainTokens \cup DSRQueries \cup QueryTokens
  /\ \E k \in 1..Len(ss) : ss[k] \in DSRQueries

C10_DSRNotIntercepted ==
  HasDSR(segs) =>
    /\ Len(ptyIn) <= Len(SelectSeq(segs, IsQuery))
    /\ Returned => (result = PassOf(segs) /\ ptyIn = AnswersOf(segs))
    /\ pc = "read" => vt.data = PassOf(segs)

C10_Witness ==
  /\ segs = <<qDSR6, qDA1, qDSR5>> /\ pc = "read"
  /\ vt.data = <<ESC, "[", "6", "n", ESC, "[", "5", "n">>
  /\ ptyIn = <<respondToDA1>>

----------------------------------------------------------------------------
(* Vocabulary of the concurrency and life-cycle properties *)

\* What each whole chunk of a set adds to the model: its pass-through bytes
ChunkResults(chunks) == { PassOf(ss) : ss \in chunks }

\* d is the filtered bytes of whole chunks, one after the other
RECURSIVE IsWholeChunks(_, _)
IsWholeChunks(d, R) ==
  \/ d = <<>>
  \/ \E r \in R : /\ Len(r) > 0 /\ Len(r) <= Len(d)
                  /\ SubSeq(d, 1, Len(r)) = r
                  /\ IsWholeChunks(SubSeq(d, Len(r) + 1, Len(d)), R)

\* The last n elements of d removed, and those elements
DropLast(d, n) == SubSeq(d, 1, Len(d) - n)
LastOf(d, n)   == SubSeq(d, Len(d) - n + 1, Len(d))

\* t.done is closed: the reader loop has signalled completion
DoneClosed == pc = "done"

----------------------------------------------------------------------------
(* C11: under every interleaving of the reader loop with the caller        *)
(* threads, each Screenshot shows the filtered bytes of a whole number of  *)
(* read chunks, applied in read order to the current model: no chunk is    *)
(* shown partially applied, and every byte the model receives is the next  *)
(* byte of the chunk read last, appended while the reader holds the lock.  *)

C11_Inv ==
  /\ snap.taken => IsWholeChunks(snap.data, ChunkResults(SnapChunks))
  /\ mu # "reader" => IsWholeChunks(vt.data, ChunkResults(SnapChunks))
  /\ pc \in {"write", "answer"} =>
       /\ mu = "reader"
       /\ vtPos <= Len(vt.data)
       /\ LastOf(vt.data, vtPos) = SubSeq(PassOf(segs), 1, vtPos)
       /\ IsWholeChunks(DropLast(vt.data, vtPos), ChunkResults(SnapChunks))

C11_Step ==
  /\ vt'.data # vt.data =>
       \/ mu = "resize" /\ vt'.data = <<>>
       \/ /\ mu = "reader" /\ vtPos < Len(PassOf(segs))
          /\ vt'.data = Append(vt.data, PassOf(segs)[vtPos + 1])
          /\ vtPos' = vtPos + 1
  /\ segs' # segs => pc = "read" /\ mu # "reader"
  /\ (mu = "reader" /\ mu' # "reader") => vtPos = Len(PassOf(segs))

C11_SnapshotWholeChunks == []C11_Inv /\ [][C11_Step]_vars

\* A snapshot of the first chunk, taken before the reader began to write the second
C11_Witness ==
  /\ snap.taken /\ snap.data = <<"A", "B">>
  /\ nReads = 2 /\ mu = "reader" /\ pc = "write"
  /\ vt.data = <<"A", "B", ESC, "[">>

----------------------------------------------------------------------------
(* C12: Screenshot never blocks on the child: in every reachable state a   *)
(* Screenshot call returns without requiring any action of the child       *)
(* process. Screenshot only needs the lock, so either the lock is free or  *)
(* the thread that holds it can take its next step by itself.              *)

\* The next step of the thread that holds the lock
LockHolderStep ==
  \/ vtWriteByte
  \/ vtAnswer
  \/ readLoopUnlock
  \/ \E ok \in BOOLEAN : ResizeSetsize(ok)
  \/ ResizeApply

C12_ScreenshotNeverWaitsForChild ==
  sess = "open" => (ENABLED Screenshot \/ ENABLED LockHolderStep)

----------------------------------------------------------------------------
(* C13: Close may be called any number of times, sequentially or           *)
(* concurrently, whether or not the child has already exited: every call   *)
(* that has begun returns, and returns nil; no call hangs, the first or a  *)
(* later one.                                                              *)

C13_CloseAlwaysReturns ==
  \A c \in Closers : (closePc[c] # "idle") ~> (closePc[c] = "nil")

\* Both calls have returned; the second ran while the first waited for the reader
C13_Witness ==
  /\ closePc[1] = "nil" /\ closePc[2] = "nil"
  /\ ~ptyOpen /\ pc = "done"

----------------------------------------------------------------------------
(* C14: Close signals the child to terminate, then closes the PTY file,    *)
(* then blocks until the reader loop has signalled completion: whenever a  *)
(* Close call has returned, the child has been signalled, the PTY file is  *)
(* closed, the reader loop has exited and IsRunning returns false.         *)

CloseReturned == \E c \in Closers : closePc[c] = "nil"

C14_Inv ==
  /\ CloseReturned => (DoneClosed /\ ~ptyOpen /\ child # "running")
  /\ ~ptyOpen => child # "running"

C14_Step ==
  (CloseReturned /\ running' # running) => running' = "false"

C14_CloseWaitsForReader == []C14_Inv /\ [][C14_Step]_vars

\* The first Close has returned while the second is still to come, and an
\* IsRunning call made after it answered false
C14_Witness ==
  /\ closePc[1] = "nil" /\ closePc[2] = "idle"
  /\ running = "false" /\ pc = "done" /\ err = "io"

----------------------------------------------------------------------------
(* C15: IsRunning never blocks; it returns true in every state before the  *)
(* reader loop has signalled completion and false in every state after    *)
(* it; the signal is never taken back, so once IsRunning has returned      *)
(* false it never returns true again.                                      *)

C15_Inv ==
  /\ sess = "open" => ENABLED IsRunning
  /\ running = "false" => DoneClosed

C15_Step ==
  /\ running' # running => running' = (IF DoneClosed THEN "false" ELSE "true")
  /\ DoneClosed => DoneClosed'
  /\ running = "false" => running' = "false"

----------------------------------------------------------------------------
(* C16: Wait returns only after the reader loop has signalled completion   *)
(* and, after that, the child process has been reaped; what it returns is  *)
(* the child's exit status.                                                *)

C16_Inv ==
  /\ waitPc \in {"done", "status"} => DoneClosed
  /\ waitPc = "status" <=> child = "reaped"

C16_Step ==
  (child' = "reaped" /\ child # "reaped") => (waitPc = "done" /\ DoneClosed)

C16_WaitAfterDoneAndReap == []C16_Inv /\ [][C16_Step]_vars

\* Wait has returned for a child that exited by itself, no Close call made
C16_Witness ==
  /\ waitPc = "status" /\ child = "reaped" /\ pc = "done"
  /\ \A c \in Closers : closePc[c] = "idle"

----------------------------------------------------------------------------
(* C17: a non-EOF PTY read error that ends the reader loop is available to *)
(* the caller: once the reader loop has ended with it, it can be retrieved *)
(* through the session's error slot or it is returned by Wait or by Close. *)

\* What Wait returned: the result of t.cmd.Wait()
WaitResult == IF waitPc = "status" THEN "status" ELSE "none"

\* What the Close call of c returned
CloseResult(c) == IF closePc[c] = "nil" THEN "nil" ELSE "none"

\* The exported operations of the session that read t.err
ErrReaders == {}

C17_ReadErrorReachesCaller ==
  (err = "io" /\ waitPc = "status" /\ \A c \in Closers : closePc[c] = "nil") =>
     \/ ErrReaders # {}
     \/ WaitResult = "io"
     \/ \E c \in Closers : CloseResult(c) = "io"

----------------------------------------------------------------------------
(* C18: after the PTY has been closed (Close has run), every SendKeys call *)
(* fails with an I/O error and delivers no bytes to the child; before      *)
(* that, a SendKeys call returns nil and writes exactly the given bytes,   *)
(* as one write, to the child's input side.                                *)

C18_Step ==
  /\ nKeys' # nKeys =>
       IF ptyOpen
       THEN /\ keysRet' = "nil"
            /\ \E k \in Keys : ptyIn' = Append(ptyIn, k)
       ELSE /\ keysRet' = "closed"
            /\ ptyIn' = ptyIn
  /\ ~ptyOpen => (ptyIn' = ptyIn /\ vtOut' = vtOut /\ ~ptyOpen')

C18_Inv == keysRet = "none" <=> nKeys = 0

C18_SendKeysAfterClose == []C18_Inv /\ [][C18_Step]_vars

\* A SendKeys call made after Close closed the PTY: it failed and delivered nothing
C18_Witness ==
  /\ keysRet = "closed" /\ nKeys = 1 /\ ptyIn = <<>>
  /\ \E c \in Closers : closePc[c] \in {"file", "nil"}

----------------------------------------------------------------------------
(* C19: after a successful Resize(cols, rows) the model is a fresh blank   *)
(* grid of rows x cols (Resize(132, 43) gives 43 rows and 132 columns) and *)
(* the recorded size is (rows, cols); a snapshot renders the model of the  *)
(* moment it is taken, so no byte written to the model before the resize   *)
(* affects any snapshot taken after it.                                    *)

\* The Resize call made last has succeeded and has returned
ResizeSucceeded == rsz.err = "none" /\ mu # "resize"

C19_Inv ==
  ResizeSucceeded =>
    /\ vt.rows = rsz.rows /\ vt.cols = rsz.cols
    /\ rows = rsz.rows /\ cols = rsz.cols
    /\ (rsz.cols = 132 /\ rsz.rows = 43) => (vt.rows = 43 /\ vt.cols = 132)

C19_Step ==
  /\ (rsz' # rsz /\ rsz'.err = "none") =>
       /\ vt'.data = <<>>
       /\ vt'.rows = rsz'.rows /\ vt'.cols = rsz'.cols
       /\ rows' = rsz'.rows /\ cols' = rsz'.cols
  /\ snap' # snap =>
       snap' = [taken |-> TRUE, rows |-> vt.rows, cols |-> vt.cols, data |-> vt.data]

C19_ResizeGivesBlankModel == []C19_Inv /\ [][C19_Step]_vars

\* A chunk was written to the model, Resize(132, 43) replaced it, and the snapshot
\* taken afterwards is blank
C19_Witness ==
  /\ rsz = [cols |-> 132, rows |-> 43, err |-> "none"]
  /\ nReads = 1 /\ pc = "read"
  /\ snap = [taken |-> TRUE, rows |-> 43, cols |-> 132, data |-> <<>>]
  /\ rows = 43 /\ cols = 132

----------------------------------------------------------------------------
(* C20: in every reachable state in which the session lock is free, the    *)
(* OS-level PTY size, the session's recorded (rows, cols) and the          *)
(* dimensions of the virtual screen model are all equal, after New and     *)
(* after any sequence of successful and failed Resize calls.               *)

C20_SizesAgree ==
  (sess = "open" /\ mu = "free") =>
    /\ ptySize = [rows |-> rows, cols |-> cols]
    /\ vt.rows = rows /\ vt.cols = cols

\* A session created with 43 rows and 132 columns, after a Resize(0, 24) for which
\* pty.Setsize failed
C20_Witness ==
  /\ sess = "open" /\ mu = "free"
  /\ rsz = [cols |-> 0, rows |-> 24, err |-> "os"]
  /\ optRows = 43 /\ optCols = 132
  /\ ptySize = [rows |-> 43, cols |-> 132]

----------------------------------------------------------------------------
(* Vocabulary of the wait properties *)

\* The polls of the wait call in progress, and whether it succeeded
StableCall == wl.kind = "stable"

TextCall == wl.kind = "text"

\* Polls j..k rendered the same text
SameText(j, k) == \A m \in j..k : wl.polls[m].text = wl.polls[j].text

\* The letters t occur next to each other in s
HasSubstring(s, t) ==
  \E p \in 0..Len(s) : p + Len(t) <= Len(s) /\ \A m \in 1..Len(t) : s[p + m] = t[m]

\* The rendered text contains the letters t
ShowsText(text, t) == text # EmptyText /\ HasSubstring(text.data, t)

----------------------------------------------------------------------------
(* C21: WaitForStable returns success only when every snapshot polled      *)
(* since the last change it observed is the same text and at least         *)
(* stableDuration has passed since that change was observed; every change  *)
(* restarts the dwell time.                                                *)

C21_SuccessOnlyAfterDwell ==
  (StableCall /\ wl.ret = "nil") =>
    LET n == Len(wl.polls)
    IN \E k \in 1..n :
         /\ k = 1 \/ wl.polls[k - 1].text # wl.polls[k].text
         /\ SameText(k, n)
         /\ wl.polls[n].at - wl.polls[k].at >= wl.dur

\* a success after a change: the screen changed under the call, which then
\* dwelt for a positive stableDuration
C21_Witness ==
  /\ StableCall /\ wl.ret = "nil" /\ wl.dur > 0
  /\ \E k \in 2..Len(wl.polls) : wl.polls[k - 1].text # wl.polls[k].text

----------------------------------------------------------------------------
(* C22: WaitForStable succeeds as soon as the polled snapshot has been     *)
(* unchanged for at least stableDuration before the timeout, whatever the  *)
(* rendered text: once two polls at least stableDuration apart and all     *)
(* polls between them show the same text, the call has returned success    *)
(* at the later one.                                                       *)

C22_SucceedsOnceStable ==
  StableCall =>
    \A j \in 1..Len(wl.polls) : \A k \in (j + 1)..Len(wl.polls) :
      (SameText(j, k) /\ wl.polls[k].at - wl.polls[j].at >= wl.dur)
        => (k = Len(wl.polls) /\ wl.ret = "nil")

----------------------------------------------------------------------------
(* C23: WaitForText with an empty target never returns success; for every  *)
(* timeout and every screen content it returns the timeout error.          *)

C23_EmptyTextTimesOut ==
  /\ []((TextCall /\ wl.target = <<>>) => wl.ret # "nil")
  /\ ((TextCall /\ wl.target = <<>>) ~> (wl.ret = "timeout"))

\* the empty target timed out after polling a screen with text on it
C23_Witness ==
  /\ TextCall /\ wl.target = <<>> /\ wl.ret = "timeout"
  /\ \E k \in 1..Len(wl.polls) : wl.polls[k].text.data # <<>>

----------------------------------------------------------------------------
(* C24 as stated: for a non-empty target WaitForText returns success as    *)
(* soon as a polled snapshot contains the target, and only if one did;     *)
(* when the target is on the screen from the call onward, the call returns *)
(* success and not a timeout.                                              *)

\* success at the first poll that contains the target, and only then
C24_Inv ==
  (TextCall /\ wl.target # <<>>) =>
    /\ \A k \in 1..Len(wl.polls) :
         ShowsText(wl.polls[k].text, wl.target) => (k = Len(wl.polls) /\ wl.ret = "nil")
    /\ wl.ret = "nil" =>
         \E k \in 1..Len(wl.polls) : ShowsText(wl.polls[k].text, wl.target)

\* the target is on the screen for as long as the call for it is there
C24_OnScreen == (TextCall /\ wl.target # <<>>) => ShowsText(Render(vt), wl.target)

C24_AsStated ==
  /\ []C24_Inv
  /\ []C24_OnScreen => []((TextCall /\ wl.target # <<>>) => wl.ret # "timeout")

(* C24 amended: the call returns success and not a timeout when the target *)
(* is on the screen from the call onward and the timeout is positive, so   *)
(* that at least one poll is made.                                         *)

C24_TextFound ==
  /\ []C24_Inv
  /\ []C24_OnScreen =>
       []((TextCall /\ wl.target # <<>> /\ wl.timeout > 0) => wl.ret # "timeout")
  /\ []C24_OnScreen =>
       ((TextCall /\ wl.target # <<>> /\ wl.timeout > 0) ~> (wl.ret = "nil"))

\* a target of two letters found in the middle of a call, after a poll without it
C24_Witness ==
  /\ TextCall /\ wl.target = <<"A", "B">> /\ wl.ret = "nil" /\ Len(wl.polls) > 1

----------------------------------------------------------------------------
(* Vocabulary of the tool's properties *)

\* The text t is part of the rendered text; the empty text is part of every text
HasText(text, t) == t = <<>> \/ ShowsText(text, t)

\* run has decided its exit code in this step
RunReturns == run.exit = -1 /\ run'.exit # -1

\* No Close has begun on the session
NotClosed == \A c \in Closers : closePc[c] = "idle"

\* The bytes 0x01 to 0x1A by value
ControlBytes == <<"SOH", "STX", "ETX", "EOT", "ENQ", "ACK", "BEL", "BS", "HT", "LF",
                  "VT", "FF", "CR", "SO", "SI", "DLE", "DC1", "DC2", "DC3", "DC4",
                  "NAK", "SYN", "ETB", "CAN", "EM", "SUB">>

IsLetter(x) == \E k \in 1..26 : x = LowerLetters[k] \/ x = UpperLetters[k]

\* The position of the letter x in the alphabet
LetterPos(x) == CHOOSE k \in 1..26 : x = LowerLetters[k] \/ x = UpperLetters[k]

\* The name with its upper-case letters replaced by the lower-case ones
Fold(n) == [k \in 1..Len(n) |->
              IF IsLetter(n[k]) THEN LowerLetters[LetterPos(n[k])] ELSE n[k]]

\* n is ctrl-x for a letter x, in any letter case
IsCtrlName(n) ==
  /\ Len(n) = 6
  /\ Fold(SubSeq(n, 1, 5)) = <<"c", "t", "r", "l", "-">>
  /\ IsLetter(n[6])

\* The key names of the README other than the ctrl combinations
DocumentedNames ==
  { <<"u", "p">>, <<"d", "o", "w", "n">>, <<"l", "e", "f", "t">>,
    <<"r", "i", "g", "h", "t">>, <<"e", "n", "t", "e", "r">>,
    <<"r", "e", "t", "u", "r", "n">>, <<"t", "a", "b">>, <<"e", "s", "c">>,
    <<"e", "s", "c", "a", "p", "e">>, <<"b", "a", "c", "k", "s", "p", "a", "c", "e">>,
    <<"d", "e", "l", "e", "t", "e">>, <<"h", "o", "m", "e">>, <<"e", "n", "d">>,
    <<"p", "g", "u", "p">>, <<"p", "a", "g", "e", "u", "p">>, <<"p", "g", "d", "n">>,
    <<"p", "a", "g", "e", "d", "o", "w", "n">>, <<"s", "p", "a", "c", "e">> }
  \cup { <<"f">> \o Itoa(k) : k \in 1..12 }

IsKnownName(n) == IsCtrlName(n) \/ Fold(n) \in DocumentedNames

----------------------------------------------------------------------------
(* C25: if a text given with -assert is not contained in the final         *)
(* captured screen, run returns exit code 3; if every such text is         *)
(* contained, run does not return 3.                                       *)

C25_AssertExit ==
  (run.exit # -1 /\ run.captured) =>
    /\ (\E k \in 1..Len(cfg.asserts) : ~HasText(run.final, cfg.asserts[k]))
         => run.exit = ExitAssertionFailed
    /\ (\A k \in 1..Len(cfg.asserts) : HasText(run.final, cfg.asserts[k]))
         => run.exit # ExitAssertionFailed

\* run has ended with 3 on a screen that shows the first of two texts and not
\* the second
C25_Witness ==
  /\ run.pc = "exited" /\ run.captured /\ run.exit = ExitAssertionFailed
  /\ Len(cfg.asserts) = 2
  /\ HasText(run.final, cfg.asserts[1]) /\ ~HasText(run.final, cfg.asserts[2])

----------------------------------------------------------------------------
(* C26: if the target command exits with a non-zero status, the tool exits *)
(* with code 4: when run decides its exit code after the command has ended *)
(* by itself with a non-zero status, and the timer has not fired, the code *)
(* is 4.                                                                   *)

C26_CommandErrorExit ==
  [][(RunReturns /\ sess = "open" /\ child = "exited" /\ NotClosed
        /\ timer # "fired" /\ cmdStatus # 0)
       => run'.exit = ExitCommandError]_vars

----------------------------------------------------------------------------
(* C27: if the timer fires before run has finished, run returns exit code  *)
(* 2, at whichever step the timer fires.                                   *)

C27_TimeoutExit ==
  [][(RunReturns /\ timer = "fired") => run'.exit = ExitTimeout]_vars

----------------------------------------------------------------------------
(* C28: for every letter x, the key name ctrl-x in any letter case is      *)
(* translated by parseKey to the single byte whose value is the position   *)
(* of x in the alphabet; a name that is not a known key name is sent as    *)
(* its literal text.                                                       *)

C28_KeyNames ==
  run.pc = "send" =>
    LET n == cfg.keys[run.k + 1]
    IN /\ IsCtrlName(n) => run.key = <<ControlBytes[LetterPos(n[6])]>>
       /\ ~IsKnownName(n) => run.key = n

----------------------------------------------------------------------------
(* C29: each session has exactly one reader loop, started at creation; the *)
(* completion signal is raised exactly once, when that loop exits on       *)
(* end-of-stream or on a read error, and after it no reader loop runs or   *)
(* is started again for the session.                                       *)

\* the reader loop exists exactly for a created session
C29_Inv == (sess = "open") <=> (pc # "idle")

\* the loop is started by New, t.done is closed from the read of the loop only,
\* and once it is closed the loop takes no step and the signal stays
C29_Step ==
  /\ (pc = "idle" /\ pc' # "idle") => (sess = "none" /\ sess' = "open" /\ pc' = "read")
  /\ (~DoneClosed /\ DoneClosed') => pc = "read"
  /\ DoneClosed => (DoneClosed' /\ UNCHANGED readerVars)

C29_OneReaderLoop == []C29_Inv /\ [][C29_Step]_vars

\* the loop of a session has read a chunk and then ended on a read error
C29_Witness == sess = "open" /\ DoneClosed /\ err = "io" /\ nReads = 1

----------------------------------------------------------------------------
(* C30: the session lock is never held across a blocking I/O call: a       *)
(* thread that holds the lock only reads or writes the in-memory size and  *)
(* screen model, so every PTY write made by the screen model and every     *)
(* OS-level PTY size call happens while the lock is free.                  *)

C30_NoIOUnderLock ==
  [][(vtOut' # vtOut \/ (sess = "open" /\ ptySize' # ptySize) \/ rz'.pc = "sized")
       => mu = "free"]_vars

----------------------------------------------------------------------------
(* C31: a New or Resize call whose rows or cols is outside [0, 65535] is   *)
(* rejected before any OS call: the rejected New starts no child and no    *)
(* reader loop, the rejected Resize makes no OS-level size call and leaves *)
(* the recorded size and the model unchanged.                              *)

C31_Step ==
  /\ (sess = "none" /\ sess' # "none" /\ ~(InRange(optRows') /\ InRange(optCols')))
       => /\ sess' = "failed" /\ newErr' = "dims"
          /\ osStart' = "notcalled" /\ ~ptyOpen' /\ child' = "none" /\ pc' = "idle"
          /\ UNCHANGED <<ptySize, rows, cols, vt>>
  /\ (nResize' = nResize + 1 /\ ~(InRange(rsz'.rows) /\ InRange(rsz'.cols)))
       => /\ rsz'.err = "dims"
          /\ UNCHANGED <<ptySize, rows, cols, vt>>

C31_RejectedBeforeOS == [][C31_Step]_vars

\* a Resize to 65536 columns was rejected on a session that has text on its screen
C31_Witness ==
  sess = "open" /\ rsz.err = "dims" /\ rsz.cols = 65536 /\ InRange(rsz.rows)
    /\ vt.data # <<>>

----------------------------------------------------------------------------
(* C32: the session's error slot is written only by the reader loop, only  *)
(* on a read error other than end-of-stream, and not after the completion  *)
(* signal has been raised; when the loop ends on end-of-stream the slot    *)
(* stays empty.                                                            *)

\* the slot is written once, with the read error, by the step of the loop that
\* leaves its read and ends it
C32_Step ==
  err' # err =>
    /\ pc = "read" /\ err = "none" /\ err' = "io"
    /\ ~DoneClosed /\ DoneClosed'

\* a filled slot belongs to a loop that has ended
C32_Inv == err # "none" => DoneClosed

C32_ErrorSlot == []C32_Inv /\ [][C32_Step]_vars

\* the loop has read a chunk and ended on end-of-stream; Close has returned and the
\* slot is empty
C32_Witness == DoneClosed /\ err = "none" /\ nReads = 1 /\ CloseReturned

----------------------------------------------------------------------------
(* C33: every call of WaitForStable and of WaitForText terminates: it      *)
(* returns success or the timeout error no later than one poll interval    *)
(* after its deadline, whatever the child does and whether or not the      *)
(* reader loop is still running, and a WaitForText none of whose polls     *)
(* showed the target returns the timeout error.                            *)

C33_Inv ==
  /\ wl.pc # "idle" => now <= wl.deadline + PollTicks
  /\ wl.pc = "returned" => wl.ret \in {"nil", "timeout"}
  /\ (wl.pc = "returned" /\ TextCall
        /\ \A k \in 1..Len(wl.polls) :
             ~(wl.target # <<>> /\ ShowsText(wl.polls[k].text, wl.target)))
       => wl.ret = "timeout"

C33_WaitTerminates ==
  /\ []C33_Inv
  /\ (wl.pc \in {"check", "sleep"}) ~> (wl.pc = "returned")

----------------------------------------------------------------------------
(* C34: in every state of a session whose PTY is open, also after a        *)
(* successful Resize, the screen model is attached to the PTY as its       *)
(* response writer, so a DSR query the child emits after a resize is       *)
(* still answered on the PTY.                                              *)

C34_ModelKeepsWriter == (sess = "open" /\ ptyOpen) => vt.writer

----------------------------------------------------------------------------
(* C35: for every input buffer, the bytes the filter forwards to the       *)
(* screen model contain no complete recognized CSI query (ESC[c, ESC[0c,   *)
(* ESC[>c, ESC[>0c, ESC[14t, ESC[18t, ESC[19t), so that filtering the      *)
(* output again would change nothing and write nothing.                    *)

C35_OutputHasNoQuery ==
  (pc = "scan" /\ i >= Len(data)) =>
    \A q \in DAQueries \cup SizeQueryTokens :
      \A k \in 0..(Len(result) - Len(q)) : SubSeq(result, k + 1, k + Len(q)) # q

----------------------------------------------------------------------------
(* C36: after Close has returned, no operation changes the rendered screen *)
(* or the recorded size: a later Screenshot returns the text of the same   *)
(* model, the reader loop writes nothing more to it, and every later       *)
(* Resize fails without replacing the model or updating (rows, cols).      *)

C36_Step ==
  CloseReturned =>
    /\ UNCHANGED <<vt, rows, cols, ptySize>>
    /\ snap' # snap => Render(snap') = Render(vt)
    /\ nResize' = nResize + 1 => rsz'.err # "none"

C36_FrozenAfterClose == [][C36_Step]_vars

\* after Close has returned, a Resize with valid dimensions has failed and a
\* snapshot shows the text written before
C36_Witness ==
  /\ CloseReturned /\ ~ptyOpen
  /\ rsz.err = "os"
  /\ snap.taken /\ snap.data # <<>> /\ Render(snap) = Render(vt)

----------------------------------------------------------------------------
(* C37: if the OS-level PTY size update fails during a Resize with valid   *)
(* dimensions, Resize returns that error and leaves the recorded           *)
(* (rows, cols) and the virtual screen model, its content included,        *)
(* unchanged.                                                              *)

C37_Step ==
  (nResize' = nResize + 1 /\ rsz'.err = "os") =>
    /\ InRange(rsz'.rows) /\ InRange(rsz'.cols)
    /\ UNCHANGED <<rows, cols, vt, ptySize>>

C37_SetsizeFailureKeepsState == [][C37_Step]_vars

\* pty.Setsize has failed for 24 x 65535 on an 80 x 24 session whose screen
\* shows text
C37_Witness ==
  /\ sess = "open" /\ rsz = [cols |-> 24, rows |-> 65535, err |-> "os"]
  /\ rows = 24 /\ cols = 80 /\ vt.data # <<>> /\ vt.cols = 80 /\ vt.rows = 24

----------------------------------------------------------------------------
(* C38: under every interleaving of the reader loop with concurrent Resize *)
(* calls, the rows and cols used in one size-query response (ESC[14t,      *)
(* ESC[18t, ESC[19t) are a pair recorded together by a single New or       *)
(* Resize: a response never combines the rows of one resize with the cols  *)
(* of another.                                                             *)

\* the (rows, cols) recorded together by New or by one of the Resize calls
C38_RecordedPairs == { <<24, 80>> } \cup { <<d[2], d[1]>> : d \in SizeDims }

C38_ResponseFromOnePair ==
  /\ pending.query \in SizeQueries => <<pending.rows, pending.cols>> \in C38_RecordedPairs
  /\ \A k \in 1..Len(ptyIn) :
       \E q \in SizeQueries, p \in C38_RecordedPairs : ptyIn[k] = Response(q, p[1], p[2])

\* two Resize calls have succeeded, and a size query read between them was
\* answered with the size of the first while the second was under way
C38_Witness ==
  /\ nResize = 2 /\ rsz = [cols |-> 100, rows |-> 30, err |-> "none"]
  /\ rows = 30 /\ cols = 100
  /\ \E k \in 1..Len(ptyIn) : ptyIn[k] = respondToTextAreaSize(43, 132)

----------------------------------------------------------------------------
(* C39: if stableDuration is greater than timeout, WaitForStable never     *)
(* returns success: it returns the timeout error whatever the screen does, *)
(* even when the screen never changes (each poll taken as instantaneous).  *)

C39_Case == StableCall /\ wl.dur > wl.timeout

C39_NeverStableInTime ==
  /\ [](C39_Case => wl.ret # "nil")
  /\ C39_Case ~> (wl.pc = "returned" /\ wl.ret = "timeout")

\* WaitForStable(3, 4) has returned the timeout error after two polls of the
\* same non-empty screen
C39_Witness ==
  /\ StableCall /\ wl.timeout = 3 /\ wl.dur = 4
  /\ wl.pc = "returned" /\ wl.ret = "timeout"
  /\ Len(wl.polls) = 2 /\ SameText(1, 2) /\ wl.polls[1].text # EmptyText

====
